---- MODULE Spec2Model ----
(***************************************************************************)
(* Model of the static reference validator                                 *)
(* (services/validate_references.py, class ReferenceValidator).            *)
(*                                                                         *)
(* A dotted Java name is a sequence of its segments, a source file is a    *)
(* path and a sequence of lines, and a line is a record saying which of    *)
(* the validator's patterns its text is shaped like.  run_validation is a  *)
(* sequence of phases; each phase is one action that walks the corpus.     *)
(***************************************************************************)
EXTENDS Integers, Sequences, FiniteSets, TLC

----------------------------------------------------------------------------
(* Dotted names *)

Dot(pkg, simple) == pkg \o <<simple>>

SimpleName(fqn) == fqn[Len(fqn)]

\* 'com.waqiti' in name
IsInternal(name) ==
    \E i \in 1..(Len(name) - 1) : name[i] = "com" /\ name[i + 1] = "waqiti"

\* name.startswith('com.waqiti')
StartsWithInternal(name) ==
    Len(name) >= 2 /\ name[1] = "com" /\ name[2] = "waqiti"

EndsWithNoDot(cls, simple) ==
    Len(cls) >= 2 /\ cls[Len(cls)] \in {simple, "My" \o simple}

\* cls.endswith('.' + simple)
EndsWithSimple(cls, simple) ==
    Len(cls) >= 2 /\ cls[Len(cls)] = simple

PkgA == <<"com", "waqiti", "a">>
PkgB == <<"com", "waqiti", "b">>
PkgC == <<"com", "waqiti", "c">>
PkgX == <<"com", "waqiti", "x">>
PkgExt == <<"org", "ext">>

ClsA == Dot(PkgA, "A")
ClsB == Dot(PkgB, "B")
ClsC == Dot(PkgC, "C")
ClsMissing == Dot(PkgX, "Missing")
ClsExt == Dot(PkgExt, "E")

----------------------------------------------------------------------------
(* Source text: one record per line *)

NoName == <<>>

\* package p;
PackageLine(p) ==
    [kind |-> "package", name |-> p, mod |-> "", arg |-> NoName, tail |-> ""]

\* import n;            followed by `tail` on the same line
ImportLine(n, tail) ==
    [kind |-> "import", name |-> n, mod |-> "", arg |-> NoName, tail |-> tail]

\* import p.*;
WildcardLine(p) ==
    [kind |-> "import", name |-> p, mod |-> "*", arg |-> NoName, tail |-> ""]

\* [public] class|interface|enum Simple
ClassLine(mod, simple) ==
    [kind |-> "class", name |-> <<simple>>, mod |-> mod, arg |-> NoName, tail |-> ""]

\* @Component, @Service, @Repository
AnnotLine(a) ==
    [kind |-> "annot", name |-> <<a>>, mod |-> "", arg |-> NoName, tail |-> ""]

\* @FeignClient(name = "svc"[, fallback = Fb.class]); fb = NoName when absent
FeignLine(svc, fb) ==
    [kind |-> "feign", name |-> <<svc>>, mod |-> "", arg |-> fb, tail |-> ""]

\* @Autowired|@Inject private Type<targ> f;   (targ = NoName: no generics)
FieldLine(inj, type, targ) ==
    [kind |-> "field", name |-> type, mod |-> inj, arg |-> targ, tail |-> ""]

\* a declaration-shaped line  `mod type m(...)`, or `} else if (...)`
MethodLine(m) ==
    [kind |-> "method", name |-> <<m>>, mod |-> "", arg |-> NoName, tail |-> ""]

\* var.m(...)
CallLine(var, m) ==
    [kind |-> "call", name |-> <<var>>, mod |-> "", arg |-> <<m>>, tail |-> ""]

BlankLine ==
    [kind |-> "blank", name |-> NoName, mod |-> "", arg |-> NoName, tail |-> ""]

\* trailing text of an import line
TailNone == ""
TailStarComment == "// was x.*;"

\* re.match(r'import\s+([\w.]+);', line.strip()): '*' is not in [\w.], so
\* the text of a wildcard import does not match
ImportMatches(line) == line.kind = "import" /\ line.mod # "*"

\* line.strip().endswith('*;')
EndsWithStarSemi(line) ==
    \/ line.tail = TailStarComment
    \/ line.kind = "import" /\ line.mod = "*" /\ line.tail = TailNone

\* a file: absolute path (segments) and text
\* unreadable_in: the phases whose open() of the file raises
JavaFile(path, lines) == [path |-> path, lines |-> lines, unreadable_in |-> {}]

ReadableAlways(file, phase) == TRUE

\* the with-open of a phase's loop body returns the text; otherwise the
\* exception is caught by the except of the same body
Readable(file, phase) == phase \notin file.unreadable_in

\* ReferenceValidator("/Users/anietieakpan/git/waqiti-app")
BasePath == <<"Users", "anietieakpan", "git", "waqiti-app">>

ServicesPath == BasePath \o <<"services">>

----------------------------------------------------------------------------
(* Python dicts keep insertion order: a sequence of [key, val] entries *)

EmptyDict == <<>>

Keys(d) == {d[i].key : i \in 1..Len(d)}

HasKey(d, k) == \E i \in 1..Len(d) : d[i].key = k

Get(d, k) == d[CHOOSE i \in 1..Len(d) : d[i].key = k].val

PutAppending(d, k, v) == Append(d, [key |-> k, val |-> v])

\* d[k] = v : an existing key keeps its position
Put(d, k, v) ==
    IF HasKey(d, k)
    THEN [i \in 1..Len(d) |-> IF d[i].key = k THEN [key |-> k, val |-> v] ELSE d[i]]
    ELSE Append(d, [key |-> k, val |-> v])

\* d.get(k, set())
GetOrEmpty(d, k) == IF HasKey(d, k) THEN Get(d, k) ELSE {}

----------------------------------------------------------------------------
(* Loops.  `for x in s: acc = Op(acc, x)` is a left fold.  The range is    *)
(* split in halves, and the first half is evaluated before the second is   *)
(* entered, only to keep the evaluation shallow on long sequences.         *)

RECURSIVE FoldRange(_, _, _, _, _)
FoldRange(Op(_, _), acc, s, lo, hi) ==
    IF lo > hi THEN acc
    ELSE IF lo = hi THEN Op(acc, s[lo])
    ELSE LET mid == (lo + hi) \div 2
             left == FoldRange(Op, acc, s, lo, mid)
         IN  IF left = acc
             THEN FoldRange(Op, acc, s, mid + 1, hi)
             ELSE FoldRange(Op, left, s, mid + 1, hi)

FoldLeft(Op(_, _), acc, s) == FoldRange(Op, acc, s, 1, Len(s))

\* concatenation of a sequence of sequences
Flatten(ss) == FoldLeft(LAMBDA acc, x : acc \o x, <<>>, ss)

----------------------------------------------------------------------------
(* Phase 0: scan_all_classes *)

\* re.search: the first line of the file shaped like `kind`, 0 when none
FirstLine(lines, kind) ==
    IF \E i \in 1..Len(lines) : lines[i].kind = kind
    THEN CHOOSE i \in 1..Len(lines) :
            /\ lines[i].kind = kind
            /\ \A j \in 1..(i - 1) : lines[j].kind # kind
    ELSE 0

HasAnnotation(lines, a) ==
    \E i \in 1..Len(lines) : lines[i].kind = "annot" /\ lines[i].name = <<a>>

MethodDenylist == {"class", "if", "for", "while", "switch"}

DeclaredMethodsUnfiltered(lines) ==
    {lines[i].name[1] : i \in {j \in 1..Len(lines) : lines[j].kind = "method"}}

\* names matched by method_pattern in the file, minus the denylist
DeclaredMethods(lines) ==
    {lines[i].name[1] : i \in {j \in 1..Len(lines) : lines[j].kind = "method"}}
        \ MethodDenylist

\* fully qualified name of the file's primary type; NoName when the file
\* has no package statement or no type declaration
DeclaredFqn(lines) ==
    LET p == FirstLine(lines, "package")
        c == FirstLine(lines, "class")
    IN  IF p # 0 /\ c # 0 THEN Dot(lines[p].name, lines[c].name[1]) ELSE NoName

\* body of the loop of scan_all_classes for one file
ScanFile(t, file) ==
    LET lines == file.lines
        fqn == DeclaredFqn(lines)
        c == FirstLine(lines, "class")
        f == FirstLine(lines, "feign")
        ms == DeclaredMethods(lines)
    IN  IF ~Readable(file, "scan_all_classes") \/ fqn = NoName THEN t
        ELSE [class_registry |-> Put(t.class_registry, fqn, file.path),
              public_classes |->
                  IF lines[c].mod = "public"
                  THEN t.public_classes \cup {fqn} ELSE t.public_classes,
              component_classes |->
                  IF HasAnnotation(lines, "Component")
                  THEN t.component_classes \cup {fqn} ELSE t.component_classes,
              service_classes |->
                  IF HasAnnotation(lines, "Service")
                  THEN t.service_classes \cup {fqn} ELSE t.service_classes,
              repository_classes |->
                  IF HasAnnotation(lines, "Repository")
                  THEN t.repository_classes \cup {fqn} ELSE t.repository_classes,
              feign_clients |->
                  IF f # 0
                  THEN Put(t.feign_clients, fqn,
                           [file |-> file.path,
                            service_name |-> lines[f].name[1],
                            content |-> lines])
                  ELSE t.feign_clients,
              class_methods |->
                  IF ms # {}
                  THEN Put(t.class_methods, fqn,
                           GetOrEmpty(t.class_methods, fqn) \cup ms)
                  ELSE t.class_methods]

\* the loop of scan_all_classes over the corpus
ScanFrom(t, files) == FoldLeft(ScanFile, t, files)

----------------------------------------------------------------------------
(* Findings *)

\* texts are sequences of words, so that `"startup" in impact.lower()` is
\* computed from the text
BrokenReference(file, line, type, target, expected, actual, severity, impact, fix) ==
    [source_file |-> file, line_number |-> line, reference_type |-> type,
     target |-> target, expected |-> expected, actual |-> actual,
     severity |-> severity, impact |-> impact, recommended_fix |-> fix]

----------------------------------------------------------------------------
(* Phase 1: validate_imports *)

\* the finding appended for an import of a class that is not registered
MissingImport(path, line_num, imported_class) ==
    BrokenReference(path, line_num, "IMPORT", imported_class,
        <<"Class", imported_class, "should exist">>,
        "Class not found in codebase", "ERROR",
        <<"Compilation", "will", "fail">>,
        <<"Remove import or create class", imported_class>>)

NonPublicImportAsError(path, line_num, imported_class) ==
    BrokenReference(path, line_num, "IMPORT", imported_class,
        <<"Class", imported_class, "should be public">>,
        "Class is not public", "ERROR",
        <<"May", "cause", "compilation", "issues">>,
        <<"Make class public or adjust visibility", NoName>>)

\* the finding appended for an import of a registered, non-public class
NonPublicImport(path, line_num, imported_class) ==
    BrokenReference(path, line_num, "IMPORT", imported_class,
        <<"Class", imported_class, "should be public">>,
        "Class is not public", "WARNING",
        <<"May", "cause", "compilation", "issues">>,
        <<"Make class public or adjust visibility", NoName>>)

NotPublicAlways(t, cls) == TRUE

\* imported_class not in self.public_classes
NotPublic(t, cls) == cls \notin t.public_classes

\* findings of one line of one file
ImportFindingsOfLine(t, file, line_num) ==
    LET line == file.lines[line_num]
        imported_class == line.name
    IN  IF ~ImportMatches(line) \/ ~IsInternal(imported_class) THEN <<>>
        ELSE IF ~HasKey(t.class_registry, imported_class)
        THEN IF ~EndsWithStarSemi(line)
             THEN <<MissingImport(file.path, line_num, imported_class)>>
             ELSE <<>>
        ELSE IF NotPublic(t, imported_class)
        THEN <<NonPublicImport(file.path, line_num, imported_class)>>
        ELSE <<>>

ImportFindingsOfFile(t, file) ==
    IF ~Readable(file, "validate_imports") THEN <<>> ELSE
    Flatten([n \in 1..Len(file.lines) |-> ImportFindingsOfLine(t, file, n)])

ImportFindings(t, files) ==
    Flatten([i \in 1..Len(files) |-> ImportFindingsOfFile(t, files[i])])

----------------------------------------------------------------------------
(* Phase 2: validate_method_calls *)

SvcClass(area, simple) == <<"com", "waqiti", area, "service", simple>>

\* service_patterns: (variable name, target class)
ServicePatterns ==
    << <<"ledgerService", SvcClass("ledger", "LedgerService")>>,
       <<"walletService", SvcClass("wallet", "WalletService")>>,
       <<"fraudDetectionService", SvcClass("fraud", "FraudDetectionService")>>,
       <<"paymentService", SvcClass("payment", "PaymentService")>>,
       <<"userService", SvcClass("user", "UserService")>>,
       <<"accountService", SvcClass("account", "AccountService")>>,
       <<"transactionService", SvcClass("transaction", "TransactionService")>> >>

MethodsLookupSubscript(class_methods, cls) ==
    [found |-> GetOrEmpty(class_methods, cls),
     class_methods |-> IF HasKey(class_methods, cls) THEN class_methods
                       ELSE Put(class_methods, cls, {})]

\* self.class_methods.get(service_class, set()) on the defaultdict: the set
\* found and the dict after the lookup, which gets no key
MethodsLookup(class_methods, cls) ==
    [found |-> GetOrEmpty(class_methods, cls), class_methods |-> class_methods]

CallFindingsOfLineAnyClass(t, file, pat, line_num) ==
    LET line == file.lines[line_num]
        service_class == pat[2]
        method_name == line.arg[1]
    IN  IF line.kind # "call" \/ line.name # <<pat[1]>> THEN <<>>
        ELSE IF method_name \notin MethodsLookup(t.class_methods, service_class).found
        THEN <<BrokenReference(file.path, line_num, "METHOD_CALL",
                   Dot(service_class, method_name),
                   <<"Method", Dot(service_class, method_name), "should exist">>,
                   "Method not found", "ERROR",
                   <<"Runtime", "error", "or", "compilation", "failure">>,
                   <<"Implement or fix method name", Dot(service_class, method_name)>>)>>
        ELSE <<>>

\* findings of one call-site line for one catalogue entry
CallFindingsOfLine(t, file, pat, line_num) ==
    LET line == file.lines[line_num]
        service_class == pat[2]
        method_name == line.arg[1]
    IN  IF line.kind # "call" \/ line.name # <<pat[1]>> THEN <<>>
        ELSE IF HasKey(t.class_registry, service_class)
                /\ method_name \notin MethodsLookup(t.class_methods, service_class).found
        THEN <<BrokenReference(file.path, line_num, "METHOD_CALL",
                   Dot(service_class, method_name),
                   <<"Method", Dot(service_class, method_name), "should exist">>,
                   "Method not found", "ERROR",
                   <<"Runtime", "error", "or", "compilation", "failure">>,
                   <<"Implement or fix method name", Dot(service_class, method_name)>>)>>
        ELSE <<>>

CallFindingsOfFile(t, file) ==
    IF ~Readable(file, "validate_method_calls") THEN <<>> ELSE
    Flatten([p \in 1..Len(ServicePatterns) |->
        Flatten([n \in 1..Len(file.lines) |->
            CallFindingsOfLine(t, file, ServicePatterns[p], n)])])

CallFindings(t, files) ==
    Flatten([i \in 1..Len(files) |-> CallFindingsOfFile(t, files[i])])

\* class_methods after the lookup made for one call-site line
ClassMethodsAfterLine(class_methods, t, file, pat, line_num) ==
    LET line == file.lines[line_num]
    IN  IF line.kind = "call" /\ line.name = <<pat[1]>>
            /\ HasKey(t.class_registry, pat[2])
        THEN MethodsLookup(class_methods, pat[2]).class_methods
        ELSE class_methods

ClassMethodsAfterFile(class_methods, t, file) ==
    IF ~Readable(file, "validate_method_calls") THEN class_methods ELSE
    FoldLeft(LAMBDA cm, pat :
                FoldLeft(LAMBDA c, n : ClassMethodsAfterLine(c, t, file, pat, n),
                         cm, [n \in 1..Len(file.lines) |-> n]),
             class_methods, ServicePatterns)

\* class_methods when validate_method_calls returns
ClassMethodsAfterCalls(t, files) ==
    FoldLeft(LAMBDA cm, file : ClassMethodsAfterFile(cm, t, file),
             t.class_methods, files)

----------------------------------------------------------------------------
(* Phase 3: validate_spring_beans *)

\* re.sub(r'<.*>', '', field_type): the written type without its arguments
StripGenerics(line) == line.name

\* name ends with '.' + base
HasSuffix(name, base) ==
    /\ Len(name) > Len(base)
    /\ \A k \in 1..Len(base) : name[Len(name) - Len(base) + k] = base[k]

\* re.search(rf'import\s+([\w.]+\.{base_type});', content): index of the
\* first import statement naming base_type, 0 when none
ImportOf(lines, base) ==
    LET hit(i) == ImportMatches(lines[i]) /\ HasSuffix(lines[i].name, base)
    IN  IF \E i \in 1..Len(lines) : hit(i)
        THEN CHOOSE i \in 1..Len(lines) : hit(i) /\ \A j \in 1..(i - 1) : ~hit(j)
        ELSE 0

\* the type an injected field resolves to
ResolveFieldType(lines, line) ==
    LET base == StripGenerics(line)
    IN  IF ~StartsWithInternal(base) /\ ImportOf(lines, base) # 0
        THEN lines[ImportOf(lines, base)].name
        ELSE base

\* autowired_pattern
IsInjectedField(line) == line.kind = "field" /\ line.mod \in {"Autowired", "Inject"}

HasBeanRoleNoRepository(t, cls) ==
    \/ cls \in t.component_classes
    \/ cls \in t.service_classes

\* the negation of the test of the elif at lines 255-257
HasBeanRole(t, cls) ==
    \/ cls \in t.component_classes
    \/ cls \in t.service_classes
    \/ cls \in t.repository_classes

BeanFindingsOfLineNoElif(t, file, line_num) ==
    LET line == file.lines[line_num]
        base_type == ResolveFieldType(file.lines, line)
    IN  IF ~IsInjectedField(line) \/ ~IsInternal(base_type) THEN <<>>
        ELSE (IF ~HasKey(t.class_registry, base_type)
              THEN <<BrokenReference(file.path, line_num, "SPRING_BEAN", base_type,
                         <<"Bean", base_type, "should exist">>,
                         "Class not found", "ERROR",
                         <<"Application", "startup", "will", "fail">>,
                         <<"Create class or fix type", base_type>>)>>
              ELSE <<>>)
          \o (IF ~HasBeanRole(t, base_type)
              THEN <<BrokenReference(file.path, line_num, "SPRING_BEAN", base_type,
                         <<"Bean", base_type, "should be annotated">>,
                         "Missing Spring annotation", "ERROR",
                         <<"Bean", "not", "found", "exception", "at", "startup">>,
                         <<"Add @Service or @Component to", base_type>>)>>
              ELSE <<>>)

\* the body of the loop over the matches of autowired_pattern
BeanFindingsOfLine(t, file, line_num) ==
    LET line == file.lines[line_num]
        base_type == ResolveFieldType(file.lines, line)
    IN  IF ~IsInjectedField(line) \/ ~IsInternal(base_type) THEN <<>>
        ELSE IF ~HasKey(t.class_registry, base_type)
        THEN <<BrokenReference(file.path, line_num, "SPRING_BEAN", base_type,
                   <<"Bean", base_type, "should exist">>,
                   "Class not found", "ERROR",
                   <<"Application", "startup", "will", "fail">>,
                   <<"Create class or fix type", base_type>>)>>
        ELSE IF ~HasBeanRole(t, base_type)
        THEN <<BrokenReference(file.path, line_num, "SPRING_BEAN", base_type,
                   <<"Bean", base_type, "should be annotated">>,
                   "Missing Spring annotation", "ERROR",
                   <<"Bean", "not", "found", "exception", "at", "startup">>,
                   <<"Add @Service or @Component to", base_type>>)>>
        ELSE <<>>

BeanFindingsOfFile(t, file) ==
    IF ~Readable(file, "validate_spring_beans") THEN <<>> ELSE
    Flatten([n \in 1..Len(file.lines) |-> BeanFindingsOfLine(t, file, n)])

BeanFindings(t, files) ==
    Flatten([i \in 1..Len(files) |-> BeanFindingsOfFile(t, files[i])])

----------------------------------------------------------------------------
(* Phase 4: validate_feign_clients *)

\* re.search(r'fallback\s*=\s*(\w+)\.class', content): simple name of the
\* declared fallback, NoName when the text has no fallback attribute
FallbackOf(content) ==
    LET hit(i) == content[i].kind = "feign" /\ content[i].arg # NoName
    IN  IF \E i \in 1..Len(content) : hit(i)
        THEN content[CHOOSE i \in 1..Len(content) :
                        hit(i) /\ \A j \in 1..(i - 1) : ~hit(j)].arg
        ELSE NoName

ResolveFallbackLast(class_registry, simple) ==
    LET hit(i) == EndsWithSimple(class_registry[i].key, simple)
    IN  IF \E i \in 1..Len(class_registry) : hit(i)
        THEN class_registry[CHOOSE i \in 1..Len(class_registry) :
                        hit(i) /\ \A j \in (i + 1)..Len(class_registry) : ~hit(j)].key
        ELSE NoName

\* first key of the registry, in insertion order, ending in '.' + simple;
\* NoName when there is none
ResolveFallback(class_registry, simple) ==
    LET hit(i) == EndsWithSimple(class_registry[i].key, simple)
    IN  IF \E i \in 1..Len(class_registry) : hit(i)
        THEN class_registry[CHOOSE i \in 1..Len(class_registry) :
                        hit(i) /\ \A j \in 1..(i - 1) : ~hit(j)].key
        ELSE NoName

FeignFindingsOfClient(t, entry) ==
    LET fallback == FallbackOf(entry.val.content)
        fallback_fqn == ResolveFallback(t.class_registry, fallback[1])
    IN  IF fallback = NoName THEN <<>>
        ELSE IF fallback_fqn = NoName
        THEN <<BrokenReference(entry.val.file, 1, "FEIGN_FALLBACK", fallback,
                   <<"Fallback class", fallback, "should exist">>,
                   "Fallback class not found", "ERROR",
                   <<"Circuit", "breaker", "will", "not", "work">>,
                   <<"Create fallback class", fallback>>)>>
        ELSE IF fallback_fqn \notin t.component_classes
        THEN <<BrokenReference(entry.val.file, 1, "FEIGN_FALLBACK", fallback,
                   <<"Fallback class", fallback, "should be @Component">>,
                   "Missing @Component annotation", "ERROR",
                   <<"Fallback", "will", "not", "be", "registered">>,
                   <<"Add @Component to", fallback>>)>>
        ELSE <<>>

FeignFindings(t) ==
    Flatten([i \in 1..Len(t.feign_clients) |->
        FeignFindingsOfClient(t, t.feign_clients[i])])

----------------------------------------------------------------------------
(* Phase 5: detect_circular_dependencies *)

EdgesOfFileNoSelf(t, file) ==
    {file.lines[n].name : n \in {m \in 1..Len(file.lines) :
        /\ ImportMatches(file.lines[m])
        /\ IsInternal(file.lines[m].name)
        /\ HasKey(t.class_registry, file.lines[m].name)
        /\ file.lines[m].name # DeclaredFqn(file.lines)}}

\* imports of one file that become edges of the dependency graph
EdgesOfFile(t, file) ==
    {file.lines[n].name : n \in {m \in 1..Len(file.lines) :
        /\ ImportMatches(file.lines[m])
        /\ IsInternal(file.lines[m].name)
        /\ HasKey(t.class_registry, file.lines[m].name)}}

\* dependencies[current_fqn].add(imported) for the imports of one file; the
\* defaultdict(set) gets a key with its first edge
AddEdgesOfFile(deps, t, file) ==
    LET current_fqn == DeclaredFqn(file.lines)
        edges == EdgesOfFile(t, file)
    IN  IF Readable(file, "detect_circular_dependencies")
            /\ current_fqn # NoName /\ edges # {}
        THEN Put(deps, current_fqn, GetOrEmpty(deps, current_fqn) \cup edges)
        ELSE deps

BuildDependencies(t, files) ==
    FoldLeft(LAMBDA deps, file : AddEdgesOfFile(deps, t, file), EmptyDict, files)

\* the orders in which a Python set may be iterated
Orderings(S) ==
    {o \in [1..Cardinality(S) -> S] :
        \A i, j \in 1..Cardinality(S) : i # j => o[i] # o[j]}

PairsOfKeyAnyDeps(deps, cls_a, order) ==
    SelectSeq([k \in 1..Len(order) |-> <<cls_a, order[k]>>],
              LAMBDA pr : HasKey(deps, pr[2]))

\* entries appended for one key of `dependencies`
PairsOfKey(deps, cls_a, order) ==
    SelectSeq([k \in 1..Len(order) |-> <<cls_a, order[k]>>],
              LAMBDA pr : cls_a \in GetOrEmpty(deps, pr[2]))

\* every sequence the cycle loop may append
CyclePairs(deps) ==
    FoldLeft(LAMBDA outcomes, entry :
                {found \o PairsOfKey(deps, entry.key, o) :
                    found \in outcomes, o \in Orderings(entry.val)},
             {<<>>}, deps)

----------------------------------------------------------------------------
(* generate_report *)

LowerWordIdentity(w) == w

\* str.lower() on the words used in impact texts
LowerWord(w) ==
    CASE w = "Compilation" -> "compilation"
      [] w = "May" -> "may"
      [] w = "Runtime" -> "runtime"
      [] w = "Application" -> "application"
      [] w = "Bean" -> "bean"
      [] w = "Circuit" -> "circuit"
      [] w = "Fallback" -> "fallback"
      [] OTHER -> w

\* word in impact.lower()
Mentions(impact, word) == \E i \in 1..Len(impact) : LowerWord(impact[i]) = word

IsCritical(issue) ==
    /\ issue.severity = "ERROR"
    /\ (Mentions(issue.impact, "startup") \/ Mentions(issue.impact, "compilation"))

IsErrorAnyImpact(issue) == issue.severity = "ERROR"

IsError(issue) ==
    /\ issue.severity = "ERROR"
    /\ ~(Mentions(issue.impact, "startup") \/ Mentions(issue.impact, "compilation"))

IsWarning(issue) == issue.severity # "ERROR"

\* re.search(r'/services/([^/]+)/', source_file): NoName when no match
ServiceOf(path) ==
    LET hit(i) == path[i] = "services"
    IN  IF \E i \in 1..(Len(path) - 2) : hit(i)
        THEN <<path[1 + CHOOSE i \in 1..(Len(path) - 2) :
                        hit(i) /\ \A j \in 1..(i - 1) : ~hit(j)]>>
        ELSE NoName

\* DeepValidator._extract_service: file_path.split('/services/')[1].split('/')[0],
\* 'unknown' when the path has no '/services/'
ExtractService(path) ==
    LET hit(i) == path[i] = "services"
    IN  IF \E i \in 1..(Len(path) - 1) : hit(i)
        THEN path[1 + CHOOSE i \in 1..(Len(path) - 1) :
                        hit(i) /\ \A j \in 1..(i - 1) : ~hit(j)]
        ELSE "unknown"

\* service_issues[service] += 1
CountIssue(counts, issue) ==
    LET svc == ServiceOf(issue.source_file)
    IN  IF svc # NoName
        THEN Put(counts, svc, (IF HasKey(counts, svc) THEN Get(counts, svc) ELSE 0) + 1)
        ELSE counts

\* the defaultdict(int) `service_issues`
CountByService(issues) == FoldLeft(CountIssue, EmptyDict, issues)

\* sorted(items, key=count, reverse=True): stable, ties keep their order
SortByCountDesc(d) ==
    LET before(j, i) == d[j].val > d[i].val \/ (d[j].val = d[i].val /\ j < i)
        rank(i) == 1 + Cardinality({j \in 1..Len(d) : before(j, i)})
    IN  [r \in 1..Len(d) |-> d[CHOOSE i \in 1..Len(d) : rank(i) = r]]

TakeLast(s, n) == SubSeq(s, (IF Len(s) < n THEN 0 ELSE Len(s) - n) + 1, Len(s))

\* s[:n]
Take(s, n) == SubSeq(s, 1, IF Len(s) < n THEN Len(s) ELSE n)

TopCritical == 50
TopErrors == 100
TopWarnings == 100
TopCycles == 50
TopServices == 20

\* one entry of a detail list
Detail(issue) ==
    [source |-> issue.source_file, line |-> issue.line_number,
     type |-> issue.reference_type, target |-> issue.target,
     expected |-> issue.expected, actual |-> issue.actual,
     impact |-> issue.impact, fix |-> issue.recommended_fix]

Details(issues) == [i \in 1..Len(issues) |-> Detail(issues[i])]

SummaryOfShown(all_issues, critical, errors, warnings, cycles, service_issues, registry) ==
    [total_issues |-> Len(all_issues),
     critical |-> Len(Take(critical, TopCritical)),
     errors |-> Len(Take(errors, TopErrors)),
     warnings |-> Len(Take(warnings, TopWarnings)),
     circular_dependencies |-> Len(Take(cycles, TopCycles)),
     services_affected |-> Len(Take(service_issues, TopServices)),
     classes_scanned |-> Len(registry)]

\* the "summary" entry of the report
SummaryOf(all_issues, critical, errors, warnings, cycles, service_issues, registry) ==
    [total_issues |-> Len(all_issues),
     critical |-> Len(critical),
     errors |-> Len(errors),
     warnings |-> Len(warnings),
     circular_dependencies |-> Len(cycles),
     services_affected |-> Len(service_issues),
     classes_scanned |-> Len(registry)]

GenerateReport(t, imports, calls, beans, feign, cycles) ==
    LET all_issues == imports \o calls \o beans \o feign
        critical == SelectSeq(all_issues, IsCritical)
        errors == SelectSeq(all_issues, IsError)
        warnings == SelectSeq(all_issues, IsWarning)
        service_issues == CountByService(all_issues)
    IN  [summary |-> SummaryOf(all_issues, critical, errors, warnings, cycles,
                               service_issues, t.class_registry),
         by_category |->
             [broken_imports |-> Len(imports),
              broken_method_calls |-> Len(calls),
              missing_beans |-> Len(beans),
              broken_feign_clients |-> Len(feign)],
         critical_issues |-> Details(Take(critical, TopCritical)),
         errors |-> Details(Take(errors, TopErrors)),
         warnings |-> Details(Take(warnings, TopWarnings)),
         circular_dependencies |->
             [i \in 1..Len(Take(cycles, TopCycles)) |->
                 [class_a |-> cycles[i][1], class_b |-> cycles[i][2]]],
         services_affected |-> Take(SortByCountDesc(service_issues), TopServices)]

----------------------------------------------------------------------------
(* Corpora: the source trees the validator is run on *)

FileName(i) == "F" \o ToString(i) \o ".java"

\* path of the i-th file of a corpus, in service directory svc
PathOf(svc, i) == ServicesPath \o <<svc, FileName(i)>>

\* import statements for the names of S that appear in `order`, in that order
ImportsOf(S, order) ==
    [k \in 1..Len(SelectSeq(order, LAMBDA c : c \in S)) |->
        ImportLine(SelectSeq(order, LAMBDA c : c \in S)[k], TailNone)]

Pkg(fqn) == SubSeq(fqn, 1, Len(fqn) - 1)

\* package; imports; annotations; type declaration; body
TypeFile(path, fqn, mod, imports, annots, body) ==
    JavaFile(path,
        <<PackageLine(Pkg(fqn))>> \o imports
            \o [k \in 1..Len(annots) |-> AnnotLine(annots[k])]
            \o <<ClassLine(mod, SimpleName(fqn))>> \o body)

SubsetsUpTo(S, n) == {T \in SUBSET S : Cardinality(T) <= n}

SeqsUpTo(S, n) == UNION {[1..k -> S] : k \in 0..n}

\* -- import graphs: three files, each declaring one of three classes --
CycleClasses == <<ClsA, ClsB, ClsC>>

\* which class each file declares: every scan order of three distinct
\* classes, and two files declaring the same class
CycleAssignments ==
    {a \in [1..3 -> 1..3] : \A i, j \in 1..3 : i # j => a[i] # a[j]}
        \cup {<<1, 1, 2>>, <<1, 2, 1>>, <<2, 1, 1>>}

MaxEdges == 3

CycleCorpora ==
    {[i \in 1..3 |->
        TypeFile(PathOf("ledger", i), CycleClasses[assign[i]], "public",
                 ImportsOf({CycleClasses[c] : c \in {d \in 1..3 : <<i, d>> \in E}},
                           CycleClasses),
                 <<>>, <<>>)] :
        assign \in CycleAssignments,
        E \in SubsetsUpTo((1..3) \X (1..3), MaxEdges)}

Services == <<"ledger", "wallet", "payment">>

\* the files of a corpus get distinct paths, spread over the services
Repath(files) ==
    [i \in 1..Len(files) |->
        [files[i] EXCEPT !.path = PathOf(Services[((i - 1) % Len(Services)) + 1], i)]]

NoPath == <<>>

\* -- import statements: a subject file and the classes it may import --
MaxLines == 2

SubjectLines ==
    {ImportLine(ClsA, TailStarComment), ImportLine(ClsB, TailNone),
     ImportLine(ClsMissing, TailStarComment),
     WildcardLine(PkgX), ImportLine(ClsExt, TailNone), BlankLine}

ImportCorpora ==
    {Repath(
        LET providers ==
                <<TypeFile(NoPath, ClsA, modA, <<>>, <<>>, <<>>)>>
                \o (IF declB = "absent" THEN <<>>
                    ELSE <<TypeFile(NoPath, ClsB, declB, <<>>, <<>>, <<>>)>>)
            subject == TypeFile(NoPath, ClsC, "public", ls, <<>>, <<>>)
        IN  providers \o <<subject>>) :
        modA \in {"public", ""}, declB \in {"absent", "public", ""},
        ls \in SeqsUpTo(SubjectLines, MaxLines)}

\* -- injected fields: a subject file and the bean class it injects --
MaxFields == 2

ClsXB == Dot(PkgX, "B")

SubjectFields ==
    {FieldLine("Autowired", <<"B">>, NoName), FieldLine("Inject", <<"B">>, NoName),
     FieldLine("Autowired", ClsB, NoName), FieldLine("Autowired", <<"B">>, <<"T">>),
     FieldLine("Autowired", <<"E">>, NoName), FieldLine("", <<"B">>, NoName)}

SubjectImports ==
    {<<>>, <<ImportLine(ClsB, TailNone)>>, <<ImportLine(ClsXB, TailNone)>>,
     <<ImportLine(ClsXB, TailNone), ImportLine(ClsB, TailNone)>>,
     <<ImportLine(ClsExt, TailNone)>>}

RoleAnnotations == {"Component", "Service", "Repository"}

\* the annotations of R, in a fixed order
AnnotsOf(R) == SelectSeq(<<"Component", "Service", "Repository">>, LAMBDA a : a \in R)

\* the bean's annotations vary with the import that names it fixed, and the
\* subject's imports vary with the bean bare or a component
BeanVariants ==
    {<<R, <<ImportLine(ClsB, TailNone)>>>> :
        R \in {{}} \cup {{a} : a \in RoleAnnotations}}
        \cup {<<R, imps>> : R \in {{}, {"Component"}}, imps \in SubjectImports}

BeanCorpora ==
    {Repath(
        (IF declB
         THEN <<TypeFile(NoPath, ClsB, "public", <<>>, AnnotsOf(v[1]), <<>>)>>
         ELSE <<>>)
        \o <<TypeFile(NoPath, ClsA, "public", v[2], <<>>, fs)>>) :
        declB \in BOOLEAN, v \in BeanVariants,
        fs \in SeqsUpTo(SubjectFields, MaxFields)}

\* -- Feign clients and the classes their fallback may resolve to --
MaxFallbacks == 2

ClsF == Dot(PkgA, "F")
ClsG == Dot(PkgA, "G")

FallbackFiles ==
    {TypeFile(NoPath, Dot(p, "X"), "public", <<>>, AnnotsOf(R), <<>>) :
        p \in {PkgB, PkgC}, R \in {{}, {"Component"}}}
    \cup {TypeFile(NoPath, Dot(PkgB, "MyX"), "public", <<>>, <<"Component">>, <<>>)}

FeignFile(fqn, fb) ==
    TypeFile(NoPath, fqn, "public", <<FeignLine("remote", fb)>>, <<>>, <<>>)

InsertAt(s, pos, e) == SubSeq(s, 1, pos) \o <<e>> \o SubSeq(s, pos + 1, Len(s))

FeignCorpora ==
    UNION {
        {Repath(InsertAt(others, pos, FeignFile(ClsF, fb))
                \o (IF fb2 = <<"none">> THEN <<>> ELSE <<FeignFile(ClsG, fb2)>>)) :
            pos \in 0..Len(others),
            fb \in {NoName, <<"X">>}, fb2 \in {<<"none">>, NoName}} :
        others \in SeqsUpTo(FallbackFiles, MaxFallbacks)}

\* -- call sites of the catalogue's variables --
MaxCalls == 2

ClsWallet == SvcClass("wallet", "WalletService")

SubjectCalls ==
    {CallLine("walletService", "debit"), CallLine("walletService", "credit"),
     CallLine("userService", "find"), CallLine("helper", "debit")}

CallCorpora ==
    {Repath(
        LET target == IF declW
                      THEN <<TypeFile(NoPath, ClsWallet, "public", <<>>, <<"Service">>,
                                 [k \in 1..Len(ms) |-> MethodLine(ms[k])])>>
                      ELSE <<>>
            caller == TypeFile(NoPath, ClsA, "public", <<>>, <<>>, cs)
        IN  IF first THEN <<caller>> \o target ELSE target \o <<caller>>) :
        declW \in BOOLEAN, ms \in {<<>>, <<"debit">>, <<"if">>, <<"debit", "if">>},
        cs \in SeqsUpTo(SubjectCalls, MaxCalls), first \in BOOLEAN}

\* -- large corpora: n independent units, each in its own service directory
\*    and each yielding one finding of every tier and one mutual import --
PkgBig == <<"com", "waqiti", "big">>

BigP(i) == Dot(PkgBig, "P" \o ToString(i))
BigQ(i) == Dot(PkgBig, "Q" \o ToString(i))

BigUnit(i) ==
    << TypeFile(ServicesPath \o <<"svc" \o ToString(i), "P.java">>, BigP(i), "public",
           <<ImportLine(ClsMissing, TailNone), ImportLine(BigQ(i), TailNone),
             FeignLine("remote", <<"Nope" \o ToString(i)>>)>>, <<>>, <<>>),
       TypeFile(ServicesPath \o <<"svc" \o ToString(i), "Q.java">>, BigQ(i), "",
           <<ImportLine(BigP(i), TailNone)>>, <<>>, <<>>) >>

BigCorpus(n) == Flatten([i \in 1..n |-> BigUnit(i)])

BigSizes ==
    {TopServices, TopServices + 1, TopCritical, TopCritical + 1,
     TopErrors, TopErrors + 1}

\* the largest corpus with one more finding in its last service
BigSkewed ==
    BigCorpus(TopErrors + 1)
        \o <<TypeFile(ServicesPath \o <<"svc" \o ToString(TopErrors + 1), "R.java">>,
                      Dot(PkgBig, "R"), "public",
                      <<ImportLine(ClsMissing, TailNone)>>, <<>>, <<>>)>>

BigCorpora == {BigCorpus(n) : n \in BigSizes} \cup {BigSkewed}

\* -- two files declaring the same class, with a file that uses it --
DuplicateDecls ==
    {<<mod, R, ms>> : mod \in {"public", ""}, R \in {{}, {"Service"}},
                      ms \in {<<>>, <<"debit">>}}

DuplicateFile(d) ==
    TypeFile(NoPath, ClsWallet, d[1], <<>>, AnnotsOf(d[2]),
             [k \in 1..Len(d[3]) |-> MethodLine(d[3][k])])

DuplicateUser ==
    TypeFile(NoPath, ClsA, "public", <<ImportLine(ClsWallet, TailNone)>>, <<>>,
             <<FieldLine("Autowired", <<"WalletService">>, NoName),
               CallLine("walletService", "debit")>>)

DuplicateCorpora ==
    {Repath(<<DuplicateFile(d1), DuplicateFile(d2), DuplicateUser>>) :
        d1 \in DuplicateDecls, d2 \in DuplicateDecls}

\* -- files that cannot be opened in some phases --
ReadingPhases ==
    {"scan_all_classes", "validate_imports", "validate_method_calls",
     "validate_spring_beans", "detect_circular_dependencies"}

Unreadable(file, phases) == [file EXCEPT !.unreadable_in = phases]

\* a file with something for every phase, and the service it uses
UnreadableSubject ==
    TypeFile(NoPath, ClsA, "public",
             <<ImportLine(ClsMissing, TailNone), ImportLine(ClsWallet, TailNone)>>,
             <<"Component">>,
             <<FieldLine("Autowired", <<"Missing">>, NoName),
               CallLine("walletService", "credit"), MethodLine("run")>>)

UnreadableService ==
    TypeFile(NoPath, ClsWallet, "",
             <<ImportLine(ClsA, TailNone), ImportLine(ClsMissing, TailNone)>>,
             <<"Service">>, <<MethodLine("debit")>>)

UnreadableCorpora ==
    {Repath(<<Unreadable(UnreadableSubject, P), Unreadable(UnreadableService, Q)>>) :
        P \in SUBSET ReadingPhases, Q \in {{}, ReadingPhases}}

\* -- files under test and build-output directories --
TestDir == <<"src", "test", "java">>
BuildDir == <<"target", "classes">>
MainDir == <<"src", "main", "java">>

SourceDirs == {TestDir, BuildDir, MainDir}

\* one class importing a missing class and another class, declared under dir
PlacedFile(dir, fqn, other) ==
    TypeFile(ServicesPath \o <<"ledger">> \o dir \o <<SimpleName(fqn) \o ".java">>,
             fqn, "public",
             <<ImportLine(ClsMissing, TailNone), ImportLine(other, TailNone)>>,
             <<"Service">>, <<FieldLine("Autowired", ClsMissing, NoName)>>)

\* the same class in a file that lies directly in services_path
LooseFile(fqn, other) ==
    TypeFile(ServicesPath \o <<SimpleName(fqn) \o ".java">>,
             fqn, "public",
             <<ImportLine(ClsMissing, TailNone), ImportLine(other, TailNone)>>,
             <<"Service">>, <<FieldLine("Autowired", ClsMissing, NoName)>>)

PlacedCorpora ==
    {<<PlacedFile(d1, ClsA, ClsB), PlacedFile(d2, ClsB, ClsA)>> :
        d1 \in SourceDirs, d2 \in SourceDirs}
    \cup {<<LooseFile(ClsA, ClsB), PlacedFile(d, ClsB, ClsA)>> : d \in SourceDirs}

----------------------------------------------------------------------------
(* The validator run *)

VARIABLES
    corpus,                 \* the .java files under services_path, in rglob order
    pc,                     \* the phase run_validation is about to execute
    class_registry, public_classes, component_classes, service_classes,
    repository_classes, feign_clients, class_methods,
    broken_imports, broken_method_calls, missing_beans, broken_feign_clients,
    circular_dependencies, deprecated_usage,
    report,                 \* the dict returned by generate_report
    root_exists,            \* services_path is an existing directory
    report_written,         \* REFERENCE_VALIDATION_REPORT.json has been written
    rerun,                  \* this is the second execution of the script
    first_summary           \* report['summary'] of the first execution

tableVars ==
    <<class_registry, public_classes, component_classes, service_classes,
      repository_classes, feign_clients, class_methods>>

findingVars ==
    <<broken_imports, broken_method_calls, missing_beans, broken_feign_clients,
      circular_dependencies, deprecated_usage>>

runVars == <<root_exists, report_written, rerun, first_summary>>

validatorVars == <<corpus, pc, tableVars, findingVars, report, runVars>>

\* state of kafka_comprehensive_audit.py
VARIABLES
    kafka_files,            \* the .java files under base_path, in rglob order
    kafka_pc,               \* the step main() is about to execute
    topics, producers, consumers, dlq_consumers,
    transactional_consumers, idempotent_consumers,
    kafka_report            \* the dict returned by generate_report

kafkaVars ==
    <<kafka_files, kafka_pc, topics, producers, consumers, dlq_consumers,
      transactional_consumers, idempotent_consumers, kafka_report>>

\* state of migrate-to-springboot3.py and rollback-migration.py
VARIABLES
    mig_tree,               \* the .java files under services/ before the migration
    disk,                   \* the text each file holds now
    dry_run,
    mig_pc,                 \* the step run_migration is about to execute
    mig_index,              \* position of file_path in java_files
    java_files,             \* result of find_java_files: positions in mig_tree
    mig_content, mig_modified, mig_errors,  \* content, modified, errors of migrate_file
    backup_manifest,        \* MigrationBackup.backup_manifest
    backups,                \* the copies under backup_dir
    saved_manifest,         \* backup_manifest.json under backup_dir
    migration_stats,
    rollback_pc,            \* the step of rollback-migration.py
    rollback_stats

migrationVars ==
    <<mig_tree, disk, dry_run, mig_pc, mig_index, java_files, mig_content,
      mig_modified, mig_errors, backup_manifest, backups, saved_manifest, migration_stats>>

rollbackVars == <<rollback_pc, rollback_stats>>

\* the state of the scripts other than validate_references.py
otherVars == <<kafkaVars, migrationVars, rollbackVars>>

vars == <<validatorVars, otherVars>>

\* the validator's cache structures, as one value
Table ==
    [class_registry |-> class_registry, public_classes |-> public_classes,
     component_classes |-> component_classes, service_classes |-> service_classes,
     repository_classes |-> repository_classes, feign_clients |-> feign_clients,
     class_methods |-> class_methods]

NoReport == [summary |-> <<>>]

\* a new validator, before run_validation
NewValidator ==
    /\ report_written = FALSE
    /\ rerun = FALSE
    /\ first_summary = NoReport.summary
    /\ pc = "scan_all_classes"
    /\ class_registry = EmptyDict
    /\ public_classes = {}
    /\ component_classes = {}
    /\ service_classes = {}
    /\ repository_classes = {}
    /\ feign_clients = EmptyDict
    /\ class_methods = EmptyDict
    /\ broken_imports = <<>>
    /\ broken_method_calls = <<>>
    /\ missing_beans = <<>>
    /\ broken_feign_clients = <<>>
    /\ circular_dependencies = <<>>
    /\ deprecated_usage = <<>>
    /\ report = NoReport

\* KafkaArchitectureAuditor.__init__
NewAuditor ==
    /\ kafka_pc = "find_all_topics"
    /\ topics = {}
    /\ producers = EmptyDict
    /\ consumers = EmptyDict
    /\ dlq_consumers = EmptyDict
    /\ transactional_consumers = {}
    /\ idempotent_consumers = {}
    /\ kafka_report = NoReport

NoManifest == [exists |-> FALSE, entries |-> EmptyDict]

\* SpringBoot3Migrator.__init__ and MigrationBackup.__init__
NewMigrator ==
    /\ mig_pc = "find_java_files"
    /\ mig_index = 1
    /\ java_files = <<>>
    /\ mig_content = <<>>
    /\ mig_modified = FALSE
    /\ mig_errors = <<>>
    /\ backup_manifest = EmptyDict
    /\ backups = EmptyDict
    /\ saved_manifest = NoManifest
    /\ migration_stats =
           [files_processed |-> 0, files_modified |-> 0, files_failed |-> 0,
            javax_imports_fixed |-> 0, type_annotations_fixed |-> 0,
            security_configs_fixed |-> 0, errors |-> <<>>]

\* MigrationRollback.__init__, before the script is started
NewRollback ==
    /\ rollback_pc = "load"
    /\ rollback_stats = [files_restored |-> 0, files_failed |-> 0, errors |-> <<>>]

\* the migration scripts have not been started
MigrationIdle ==
    /\ mig_tree = <<>>
    /\ disk = <<>>
    /\ dry_run = FALSE
    /\ NewMigrator
    /\ NewRollback

KafkaIdle ==
    /\ kafka_files = <<>>
    /\ NewAuditor

\* the other scripts have not been started
OthersIdle ==
    /\ KafkaIdle
    /\ MigrationIdle

\* the tree is drawn from one of the families; rglob yields nothing under a
\* path that does not exist
Init ==
    /\ root_exists \in BOOLEAN
    /\ IF root_exists
       THEN \/ corpus \in CycleCorpora
            \/ corpus \in ImportCorpora
            \/ corpus \in BeanCorpora
            \/ corpus \in FeignCorpora
            \/ corpus \in CallCorpora
            \/ corpus \in DuplicateCorpora
            \/ corpus \in UnreadableCorpora
            \/ corpus \in PlacedCorpora
            \/ corpus \in BigCorpora
       ELSE corpus = <<>>
    /\ NewValidator
    /\ OthersIdle

ScanAllClasses ==
    /\ pc = "scan_all_classes"
    /\ LET t == ScanFrom(Table, corpus)
       IN  /\ class_registry' = t.class_registry
           /\ public_classes' = t.public_classes
           /\ component_classes' = t.component_classes
           /\ service_classes' = t.service_classes
           /\ repository_classes' = t.repository_classes
           /\ feign_clients' = t.feign_clients
           /\ class_methods' = t.class_methods
    /\ pc' = "validate_imports"
    /\ UNCHANGED <<runVars, otherVars>>
    /\ UNCHANGED <<corpus, findingVars, report>>

\* the lists of self.report, as one value
ReportLists ==
    [broken_imports |-> broken_imports, broken_method_calls |-> broken_method_calls,
     missing_beans |-> missing_beans, broken_feign_clients |-> broken_feign_clients,
     circular_dependencies |-> circular_dependencies,
     deprecated_usage |-> deprecated_usage]

AppendToFresh(lists, name, found) ==
    [n \in DOMAIN lists |-> IF n = name THEN lists[n] \o found ELSE <<>>]

\* self.report.<name>.append(...) for each finding of a phase, in order
AppendTo(lists, name, found) == [lists EXCEPT ![name] = @ \o found]

\* self.report after a phase
StoreLists(lists) ==
    /\ broken_imports' = lists.broken_imports
    /\ broken_method_calls' = lists.broken_method_calls
    /\ missing_beans' = lists.missing_beans
    /\ broken_feign_clients' = lists.broken_feign_clients
    /\ circular_dependencies' = lists.circular_dependencies
    /\ deprecated_usage' = lists.deprecated_usage

ValidateImports ==
    /\ pc = "validate_imports"
    /\ \E lists \in {AppendTo(ReportLists, "broken_imports",
                               ImportFindings(Table, corpus))} : StoreLists(lists)
    /\ pc' = "validate_method_calls"
    /\ UNCHANGED <<runVars, otherVars>>
    /\ UNCHANGED <<corpus, tableVars, report>>

ValidateMethodCalls ==
    /\ pc = "validate_method_calls"
    /\ \E lists \in {AppendTo(ReportLists, "broken_method_calls",
                               CallFindings(Table, corpus))} : StoreLists(lists)
    /\ class_methods' = ClassMethodsAfterCalls(Table, corpus)
    /\ pc' = "validate_spring_beans"
    /\ UNCHANGED <<runVars, otherVars>>
    /\ UNCHANGED <<corpus, class_registry, public_classes, component_classes,
                   service_classes, repository_classes, feign_clients, report>>

ValidateSpringBeans ==
    /\ pc = "validate_spring_beans"
    /\ \E lists \in {AppendTo(ReportLists, "missing_beans",
                               BeanFindings(Table, corpus))} : StoreLists(lists)
    /\ pc' = "validate_feign_clients"
    /\ UNCHANGED <<runVars, otherVars>>
    /\ UNCHANGED <<corpus, tableVars, report>>

ValidateFeignClients ==
    /\ pc = "validate_feign_clients"
    /\ \E lists \in {AppendTo(ReportLists, "broken_feign_clients",
                               FeignFindings(Table))} : StoreLists(lists)
    /\ pc' = "detect_circular_dependencies"
    /\ UNCHANGED <<runVars, otherVars>>
    /\ UNCHANGED <<corpus, tableVars, report>>

DetectCircularDependencies ==
    /\ pc = "detect_circular_dependencies"
    /\ \E found \in CyclePairs(BuildDependencies(Table, corpus)) :
           \E lists \in {AppendTo(ReportLists, "circular_dependencies", found)} :
               StoreLists(lists)
    /\ pc' = "generate_report"
    /\ UNCHANGED <<runVars, otherVars>>
    /\ UNCHANGED <<corpus, tableVars, report>>

GenerateReportStep ==
    /\ pc = "generate_report"
    /\ report' = GenerateReport(Table, broken_imports, broken_method_calls,
                                missing_beans, broken_feign_clients,
                                circular_dependencies)
    /\ pc' = "write_report"
    /\ UNCHANGED <<runVars, otherVars>>
    /\ UNCHANGED <<corpus, tableVars, findingVars>>

\* open(report_path, 'w') and json.dump: the open raises, and the exception
\* leaves run_validation, when services_path is not an existing directory
WriteReport ==
    /\ pc = "write_report"
    /\ IF root_exists
       THEN report_written' = TRUE /\ pc' = "done"
       ELSE report_written' = report_written /\ pc' = "failed"
    /\ UNCHANGED <<corpus, tableVars, findingVars, report, root_exists, rerun,
                   first_summary, otherVars>>

ValidationReportShared ==
    [broken_imports |-> broken_imports, broken_method_calls |-> broken_method_calls,
     missing_beans |-> missing_beans, broken_feign_clients |-> broken_feign_clients,
     circular_dependencies |-> circular_dependencies,
     deprecated_usage |-> deprecated_usage]

\* ValidationReport(): every list comes from its default_factory
ValidationReport ==
    [broken_imports |-> <<>>, broken_method_calls |-> <<>>, missing_beans |-> <<>>,
     broken_feign_clients |-> <<>>, circular_dependencies |-> <<>>,
     deprecated_usage |-> <<>>]

\* the script is executed again on the same tree: a new ReferenceValidator
\* is constructed and run_validation starts
Restart ==
    /\ pc \in {"done", "failed"}
    /\ ~rerun
    /\ rerun' = TRUE
    /\ first_summary' = report.summary
    /\ pc' = "scan_all_classes"
    /\ class_registry' = EmptyDict
    /\ public_classes' = {}
    /\ component_classes' = {}
    /\ service_classes' = {}
    /\ repository_classes' = {}
    /\ feign_clients' = EmptyDict
    /\ class_methods' = EmptyDict
    /\ broken_imports' = ValidationReport.broken_imports
    /\ broken_method_calls' = ValidationReport.broken_method_calls
    /\ missing_beans' = ValidationReport.missing_beans
    /\ broken_feign_clients' = ValidationReport.broken_feign_clients
    /\ circular_dependencies' = ValidationReport.circular_dependencies
    /\ deprecated_usage' = ValidationReport.deprecated_usage
    /\ report' = NoReport
    /\ UNCHANGED <<corpus, root_exists, report_written, otherVars>>

Next ==
    \/ ScanAllClasses
    \/ ValidateImports
    \/ ValidateMethodCalls
    \/ ValidateSpringBeans
    \/ ValidateFeignClients
    \/ DetectCircularDependencies
    \/ GenerateReportStep
    \/ WriteReport

Spec == Init /\ [][Next]_vars

\* corpora on which the script is executed twice
\* the trees on which the script is executed twice
InitRerun ==
    /\ root_exists \in BOOLEAN
    /\ IF root_exists
       THEN \/ corpus \in CycleCorpora
            \/ corpus \in CallCorpora
            \/ corpus \in DuplicateCorpora
            \/ corpus \in BigCorpora
       ELSE corpus = <<>>
    /\ NewValidator
    /\ OthersIdle

NextRerun == Next \/ Restart

SpecRerun == InitRerun /\ [][NextRerun]_vars

----------------------------------------------------------------------------
(* Properties *)

PhaseOrder ==
    <<"scan_all_classes", "validate_imports", "validate_method_calls",
      "validate_spring_beans", "validate_feign_clients",
      "detect_circular_dependencies", "generate_report", "write_report",
      "done", "failed">>

PhaseIndex(p) == CHOOSE i \in 1..Len(PhaseOrder) : PhaseOrder[i] = p

\* the phase has run to its end
Completed(phase) == PhaseIndex(pc) > PhaseIndex(phase)

\* positions in a finding list of the findings at a line of a file
FindingsAt(list, path, n) ==
    {k \in 1..Len(list) : list[k].source_file = path /\ list[k].line_number = n}

\* positions in a finding list of the findings of a file
FindingsOfFile(list, path) == {k \in 1..Len(list) : list[k].source_file = path}

\* the phase could open file i and read its text
Opened(i, phase) == phase \notin corpus[i].unreadable_in

\* the text of line n of file i is `import b;`
LineImports(i, n, b) ==
    /\ corpus[i].lines[n].kind = "import"
    /\ corpus[i].lines[n].mod # "*"
    /\ corpus[i].lines[n].name = b

FileImports(i, b) == \E n \in 1..Len(corpus[i].lines) : LineImports(i, n, b)

\* some file declaring class a imports class b
ClassImports(a, b) ==
    \E i \in 1..Len(corpus) : DeclaredFqn(corpus[i].lines) = a /\ FileImports(i, b)

\* positions of the entries of circular_dependencies for the unordered pair
EntriesOfPair(a, b) ==
    {k \in 1..Len(circular_dependencies) :
        circular_dependencies[k] \in {<<a, b>>, <<b, a>>}}

\* C1: once cycle detection has run, every two distinct registered classes
\* that import each other appear exactly once, as an unordered pair, in
\* report.circular_dependencies
C1_MutualPairReportedOnce ==
    Completed("detect_circular_dependencies") =>
        \A i, j \in 1..Len(corpus) :
            LET a == DeclaredFqn(corpus[i].lines)
                b == DeclaredFqn(corpus[j].lines)
            IN  (a # NoName /\ b # NoName /\ a # b
                    /\ \A p \in {"scan_all_classes", "detect_circular_dependencies"} :
                           Opened(i, p) /\ Opened(j, p)
                    /\ FileImports(i, b) /\ FileImports(j, a))
                => Cardinality(EntriesOfPair(a, b)) = 1

\* C2: once validate_imports has run, every non-wildcard import statement of
\* an internal name that is not registered has exactly one finding at its
\* line, of type IMPORT and severity ERROR
C2_MissingImportReported ==
    Completed("validate_imports") =>
        \A i \in 1..Len(corpus) : \A n \in 1..Len(corpus[i].lines) :
            LET name == corpus[i].lines[n].name
                at == FindingsAt(broken_imports, corpus[i].path, n)
            IN  (Opened(i, "validate_imports")
                    /\ LineImports(i, n, name) /\ IsInternal(name)
                    /\ name \notin Keys(class_registry))
                => /\ Cardinality(at) = 1
                   /\ \A k \in at : /\ broken_imports[k].reference_type = "IMPORT"
                                    /\ broken_imports[k].severity = "ERROR"

\* line n of file i, which validate_imports could open, imports a registered
\* internal class
ImportsRegistered(i, n) ==
    /\ Opened(i, "validate_imports")
    /\ corpus[i].lines[n].kind = "import"
    /\ IsInternal(corpus[i].lines[n].name)
    /\ corpus[i].lines[n].name \in Keys(class_registry)

\* C3: once validate_imports has run, an import of a registered internal
\* class that is in public_classes has no finding at its line
C3_PublicImportNotReported ==
    Completed("validate_imports") =>
        \A i \in 1..Len(corpus) : \A n \in 1..Len(corpus[i].lines) :
            (ImportsRegistered(i, n) /\ corpus[i].lines[n].name \in public_classes)
            => FindingsAt(broken_imports, corpus[i].path, n) = {}

\* a file imports a registered public class and, on another line, something
\* that is reported
C3_Witness ==
    /\ Completed("validate_imports")
    /\ \E i \in 1..Len(corpus) : \E n \in 1..Len(corpus[i].lines) :
        /\ ImportsRegistered(i, n)
        /\ corpus[i].lines[n].name \in public_classes
        /\ FindingsOfFile(broken_imports, corpus[i].path) # {}

\* the field at line n of file i is injected and its type resolves to a
\* registered internal class
InjectsRegistered(i, n) ==
    LET line == corpus[i].lines[n]
        cls == ResolveFieldType(corpus[i].lines, line)
    IN  /\ Opened(i, "validate_spring_beans")
        /\ line.kind = "field"
        /\ line.mod \in {"Autowired", "Inject"}
        /\ IsInternal(cls)
        /\ cls \in Keys(class_registry)

MissingAnnotationAt(i, n) ==
    {k \in FindingsAt(missing_beans, corpus[i].path, n) :
        /\ missing_beans[k].reference_type = "SPRING_BEAN"
        /\ missing_beans[k].actual = "Missing Spring annotation"}

InNoRoleSet(cls) ==
    /\ cls \notin component_classes
    /\ cls \notin service_classes
    /\ cls \notin repository_classes

\* C4: once validate_spring_beans has run, an injected field whose type
\* resolves to a registered internal class has a missing-annotation finding
\* (exactly one) if and only if that class is in none of component_classes,
\* service_classes and repository_classes
C4_AnnotationGating ==
    Completed("validate_spring_beans") =>
        \A i \in 1..Len(corpus) : \A n \in 1..Len(corpus[i].lines) :
            InjectsRegistered(i, n) =>
                LET cls == ResolveFieldType(corpus[i].lines, corpus[i].lines[n])
                IN  Cardinality(MissingAnnotationAt(i, n))
                        = IF InNoRoleSet(cls) THEN 1 ELSE 0

\* a field written with a simple type, resolved through the file's imports to
\* a registered class without annotation, is reported
C4_Witness ==
    /\ Completed("validate_spring_beans")
    /\ \E i \in 1..Len(corpus) : \E n \in 1..Len(corpus[i].lines) :
        /\ InjectsRegistered(i, n)
        /\ Len(corpus[i].lines[n].name) = 1
        /\ InNoRoleSet(ResolveFieldType(corpus[i].lines, corpus[i].lines[n]))
        /\ MissingAnnotationAt(i, n) # {}

\* every finding accumulated by the four resolver phases
AllFindings ==
    broken_imports \o broken_method_calls \o missing_beans \o broken_feign_clients

CountWhere(list, Test(_)) == Cardinality({k \in 1..Len(list) : Test(list[k])})

\* C5: in the generated report, summary.total_issues is the number of
\* findings in the four finding lists and summary.critical, errors, warnings,
\* circular_dependencies and services_affected are the sizes of the full
\* collections, whether or not the detail lists were cut to their caps
C5_SummaryCountsUntruncated ==
    pc = "done" =>
        /\ report.summary.total_issues
              = Len(broken_imports) + Len(broken_method_calls)
                  + Len(missing_beans) + Len(broken_feign_clients)
        /\ report.summary.critical = CountWhere(AllFindings, IsCritical)
        /\ report.summary.errors = CountWhere(AllFindings, IsError)
        /\ report.summary.warnings = CountWhere(AllFindings, IsWarning)
        /\ report.summary.circular_dependencies = Len(circular_dependencies)
        /\ report.summary.services_affected
              = Cardinality({ServiceOf(AllFindings[k].source_file) :
                                k \in 1..Len(AllFindings)} \ {NoName})

\* a report in which every detail list was cut
C5_Witness ==
    /\ pc = "done"
    /\ Len(report.critical_issues) = TopCritical
    /\ report.summary.critical > TopCritical
    /\ Len(report.errors) = TopErrors
    /\ report.summary.errors > TopErrors
    /\ Len(report.warnings) = TopWarnings
    /\ report.summary.warnings > TopWarnings
    /\ Len(report.circular_dependencies) = TopCycles
    /\ report.summary.circular_dependencies > TopCycles
    /\ Len(report.services_affected) = TopServices
    /\ report.summary.services_affected > TopServices

\* the tier the claim assigns to a finding of the given type and `actual`
TierOfKind(type, actual) ==
    CASE type = "IMPORT" /\ actual = "Class not found in codebase" -> "critical"
      [] type = "METHOD_CALL" -> "critical"
      [] type = "SPRING_BEAN" -> "critical"
      [] type = "FEIGN_FALLBACK" -> "errors"
      [] type = "IMPORT" /\ actual = "Class is not public" -> "warnings"
      [] OTHER -> "none"

\* the impact text has one of the words, in any capitalisation used
SpeaksOfStartupOrCompilation(impact) ==
    \E k \in 1..Len(impact) :
        impact[k] \in {"startup", "Startup", "compilation", "Compilation"}

InTier(tier, f) == TierOfKind(f.reference_type, f.actual) = tier

\* C6: every finding is counted in exactly one tier, critical iff ERROR
\* with an impact that mentions startup or compilation, errors iff ERROR
\* otherwise, warnings iff not ERROR; so missing imports, unresolved calls and
\* both bean findings are critical, both Feign findings are errors and
\* non-public imports are warnings, and each detail list holds only findings
\* of its tier
C6_SeverityTiers ==
    pc = "done" =>
        /\ \A k \in 1..Len(AllFindings) :
            LET f == AllFindings[k]
                tier == TierOfKind(f.reference_type, f.actual)
            IN  /\ tier \in {"critical", "errors", "warnings"}
                /\ tier = "critical"
                     <=> (f.severity = "ERROR" /\ SpeaksOfStartupOrCompilation(f.impact))
                /\ tier = "errors"
                     <=> (f.severity = "ERROR" /\ ~SpeaksOfStartupOrCompilation(f.impact))
                /\ tier = "warnings" <=> f.severity # "ERROR"
        /\ report.summary.critical
              = CountWhere(AllFindings, LAMBDA f : InTier("critical", f))
        /\ report.summary.errors
              = CountWhere(AllFindings, LAMBDA f : InTier("errors", f))
        /\ report.summary.warnings
              = CountWhere(AllFindings, LAMBDA f : InTier("warnings", f))
        /\ \A k \in 1..Len(report.critical_issues) :
              TierOfKind(report.critical_issues[k].type,
                         report.critical_issues[k].actual) = "critical"
        /\ \A k \in 1..Len(report.errors) :
              TierOfKind(report.errors[k].type, report.errors[k].actual) = "errors"
        /\ \A k \in 1..Len(report.warnings) :
              TierOfKind(report.warnings[k].type, report.warnings[k].actual) = "warnings"

\* a report with a missing import, a Feign finding and a non-public import
C6_Witness ==
    /\ pc = "done"
    /\ \E k \in 1..Len(report.critical_issues) :
          report.critical_issues[k].actual = "Class not found in codebase"
    /\ \E k \in 1..Len(report.errors) : report.errors[k].type = "FEIGN_FALLBACK"
    /\ \E k \in 1..Len(report.warnings) :
          report.warnings[k].actual = "Class is not public"

\* simple names written as fallback = X.class in a client's source text
DeclaredFallbacks(content) ==
    {content[i].arg[1] : i \in {j \in 1..Len(content) :
        content[j].kind = "feign" /\ content[j].arg # NoName}}

\* registered names whose last segment is the simple name
RegisteredAs(simple) ==
    {i \in 1..Len(class_registry) :
        class_registry[i].key[Len(class_registry[i].key)] = simple}

\* C7: once validate_feign_clients has run, a registered Feign client whose
\* source declares fallback = X.class while no registered name ends in '.X'
\* has exactly one finding, FEIGN_FALLBACK 'Fallback class not found' of
\* severity ERROR; a client whose source has no fallback attribute has none
C7_MissingFallback ==
    Completed("validate_feign_clients") =>
        \A e \in 1..Len(feign_clients) :
            LET client == feign_clients[e].val
                of == FindingsOfFile(broken_feign_clients, client.file)
            IN  /\ DeclaredFallbacks(client.content) = {} => of = {}
                /\ \A x \in DeclaredFallbacks(client.content) :
                      RegisteredAs(x) = {} =>
                        /\ Cardinality(of) = 1
                        /\ \A k \in of :
                            /\ broken_feign_clients[k].reference_type = "FEIGN_FALLBACK"
                            /\ broken_feign_clients[k].actual = "Fallback class not found"
                            /\ broken_feign_clients[k].severity = "ERROR"
                            /\ broken_feign_clients[k].target = <<x>>

\* a client's fallback X is reported missing although a class whose simple
\* name only ends in X is registered, next to a client without fallback
C7_Witness ==
    /\ Completed("validate_feign_clients")
    /\ \E e \in 1..Len(feign_clients) :
        /\ DeclaredFallbacks(feign_clients[e].val.content) = {"X"}
        /\ RegisteredAs("X") = {}
        /\ RegisteredAs("MyX") # {}
        /\ FindingsOfFile(broken_feign_clients, feign_clients[e].val.file) # {}
    /\ \E e \in 1..Len(feign_clients) :
        DeclaredFallbacks(feign_clients[e].val.content) = {}

\* C8: once validate_feign_clients has run, a Feign client declaring
\* fallback = X.class, with X the simple name of some registered class, has
\* exactly one finding 'Missing @Component annotation' when the first
\* registered class named X, in registry insertion order, is not in
\* component_classes, and no finding when it is
C8_FallbackNotComponent ==
    Completed("validate_feign_clients") =>
        \A e \in 1..Len(feign_clients) :
            LET client == feign_clients[e].val
                of == FindingsOfFile(broken_feign_clients, client.file)
            IN  \A x \in DeclaredFallbacks(client.content) :
                    RegisteredAs(x) # {} =>
                        LET first == CHOOSE i \in RegisteredAs(x) :
                                        \A j \in RegisteredAs(x) : i <= j
                        IN  IF class_registry[first].key \in component_classes
                            THEN of = {}
                            ELSE /\ Cardinality(of) = 1
                                 /\ \A k \in of :
                                      broken_feign_clients[k].actual
                                          = "Missing @Component annotation"

\* two registered classes share the fallback's simple name, the first is
\* not a component, the second is, and the client is reported
C8_Witness ==
    /\ Completed("validate_feign_clients")
    /\ \E e \in 1..Len(feign_clients) :
        /\ DeclaredFallbacks(feign_clients[e].val.content) = {"X"}
        /\ FindingsOfFile(broken_feign_clients, feign_clients[e].val.file) # {}
    /\ \E i, j \in RegisteredAs("X") :
        /\ i < j
        /\ \A h \in RegisteredAs("X") : i <= h
        /\ class_registry[i].key \notin component_classes
        /\ class_registry[j].key \in component_classes

\* C9: once validate_imports has run, an import of a registered internal
\* class that is not in public_classes has exactly one finding at its line,
\* 'Class is not public' of severity WARNING, and no ERROR finding
C9_NonPublicImportWarned ==
    Completed("validate_imports") =>
        \A i \in 1..Len(corpus) : \A n \in 1..Len(corpus[i].lines) :
            (ImportsRegistered(i, n) /\ corpus[i].lines[n].name \notin public_classes)
            => LET at == FindingsAt(broken_imports, corpus[i].path, n)
               IN  /\ Cardinality(at) = 1
                   /\ \A k \in at : /\ broken_imports[k].severity = "WARNING"
                                    /\ broken_imports[k].actual = "Class is not public"

\* a non-public registered class is imported on a line that ends in '*;'
\* and the import is reported
C9_Witness ==
    /\ Completed("validate_imports")
    /\ \E i \in 1..Len(corpus) : \E n \in 1..Len(corpus[i].lines) :
        /\ ImportsRegistered(i, n)
        /\ corpus[i].lines[n].name \notin public_classes
        /\ corpus[i].lines[n].tail = TailStarComment
        /\ FindingsAt(broken_imports, corpus[i].path, n) # {}

\* C10: every entry (A, B) of report.circular_dependencies is a pair of
\* classes whose files import each other; no entry comes from a longer cycle
C10_OnlyTwoNodeCycles ==
    Completed("detect_circular_dependencies") =>
        \A k \in 1..Len(circular_dependencies) :
            /\ ClassImports(circular_dependencies[k][1], circular_dependencies[k][2])
            /\ ClassImports(circular_dependencies[k][2], circular_dependencies[k][1])

\* A imports B, B imports C, C imports A, no two of them import each other,
\* and nothing is reported
C10_Witness ==
    /\ Completed("detect_circular_dependencies")
    /\ ClassImports(ClsA, ClsB) /\ ClassImports(ClsB, ClsC) /\ ClassImports(ClsC, ClsA)
    /\ \A a, b \in {ClsA, ClsB, ClsC} : ~(ClassImports(a, b) /\ ClassImports(b, a))
    /\ {ClsA, ClsB, ClsC} \subseteq Keys(class_registry)
    /\ circular_dependencies = <<>>


\* the field at line n of file i is injected and its type resolves to an
\* internal name that is not a key of the registry
InjectsUnregistered(i, n) ==
    LET line == corpus[i].lines[n]
        cls == ResolveFieldType(corpus[i].lines, line)
    IN  /\ Opened(i, "validate_spring_beans")
        /\ line.kind = "field"
        /\ line.mod \in {"Autowired", "Inject"}
        /\ IsInternal(cls)
        /\ cls \notin Keys(class_registry)

ClassNotFoundAt(i, n) ==
    {k \in FindingsAt(missing_beans, corpus[i].path, n) :
        /\ missing_beans[k].reference_type = "SPRING_BEAN"
        /\ missing_beans[k].actual = "Class not found"
        /\ missing_beans[k].severity = "ERROR"}

\* C11: once validate_spring_beans has run, an injected field whose type
\* resolves, directly or through the file's imports, to an internal name that
\* is not a key of the registry has exactly one SPRING_BEAN finding 'Class
\* not found' of severity ERROR at its line, which is the only finding there
C11_MissingBeanClass ==
    Completed("validate_spring_beans") =>
        \A i \in 1..Len(corpus) : \A n \in 1..Len(corpus[i].lines) :
            InjectsUnregistered(i, n) =>
                /\ Cardinality(ClassNotFoundAt(i, n)) = 1
                /\ FindingsAt(missing_beans, corpus[i].path, n) = ClassNotFoundAt(i, n)

\* a field of simple type, resolved through an import to a class no file
\* declares, and a qualified field of the same class are both reported
C11_Witness ==
    /\ Completed("validate_spring_beans")
    /\ \E i \in 1..Len(corpus) : \E n, m \in 1..Len(corpus[i].lines) :
        /\ InjectsUnregistered(i, n) /\ InjectsUnregistered(i, m)
        /\ Len(corpus[i].lines[n].name) = 1
        /\ Len(corpus[i].lines[m].name) > 1
        /\ ClassNotFoundAt(i, n) # {} /\ ClassNotFoundAt(i, m) # {}


\* line n of file i is a call site of the catalogue's p-th variable
CallSiteOf(i, n, p) ==
    /\ Opened(i, "validate_method_calls")
    /\ corpus[i].lines[n].kind = "call"
    /\ corpus[i].lines[n].name = <<ServicePatterns[p][1]>>

MethodCallAt(i, n) ==
    {k \in FindingsAt(broken_method_calls, corpus[i].path, n) :
        broken_method_calls[k].reference_type = "METHOD_CALL"}

\* the method set the scan recorded for a class, empty when it recorded none
MethodSetOf(cls) ==
    UNION {class_methods[k].val : k \in {j \in 1..Len(class_methods) :
                                            class_methods[j].key = cls}}

\* C12: once validate_method_calls has run, a call site of a catalogue
\* variable has one METHOD_CALL finding if the target class is a key of the
\* registry and the called method is not in its method set, and no finding
\* otherwise; in particular none when the target class is not registered
C12_CallSiteResolution ==
    Completed("validate_method_calls") =>
        \A i \in 1..Len(corpus) : \A n \in 1..Len(corpus[i].lines) :
            \A p \in 1..Len(ServicePatterns) :
                CallSiteOf(i, n, p) =>
                    LET cls == ServicePatterns[p][2]
                        unresolved ==
                            /\ cls \in Keys(class_registry)
                            /\ corpus[i].lines[n].arg[1] \notin MethodSetOf(cls)
                    IN  /\ Cardinality(FindingsAt(broken_method_calls, corpus[i].path, n))
                            = IF unresolved THEN 1 ELSE 0
                        /\ FindingsAt(broken_method_calls, corpus[i].path, n)
                            = MethodCallAt(i, n)

\* one file calls a declared and an undeclared method of a registered target
\* and a method of an unregistered target: only the second is reported
C12_Witness ==
    /\ Completed("validate_method_calls")
    /\ \E i \in 1..Len(corpus) : \E n, m \in 1..Len(corpus[i].lines) :
        \E p, q \in 1..Len(ServicePatterns) :
            /\ CallSiteOf(i, n, p) /\ CallSiteOf(i, m, q)
            /\ ServicePatterns[p][2] \in Keys(class_registry)
            /\ MethodSetOf(ServicePatterns[p][2]) # {}
            /\ MethodCallAt(i, n) # {}
            /\ ServicePatterns[q][2] \notin Keys(class_registry)
            /\ MethodCallAt(i, m) = {}


\* the files the scan could open that declare fqn
DeclaredBy(fqn) ==
    {i \in 1..Len(corpus) :
        Opened(i, "scan_all_classes") /\ DeclaredFqn(corpus[i].lines) = fqn}

\* the last file of the corpus, in scan order, that declares fqn
LaterScanned(fqn) ==
    CHOOSE i \in DeclaredBy(fqn) : \A j \in DeclaredBy(fqn) : j <= i

\* the primary type declaration of the file carries the public modifier
DeclaresPublic(file) == file.lines[FirstLine(file.lines, "class")].mod = "public"

\* the attributes recorded for fqn are those of the file
RecordIsOf(fqn, file) ==
    /\ Get(class_registry, fqn) = file.path
    /\ fqn \in public_classes <=> DeclaresPublic(file)
    /\ fqn \in component_classes <=> HasAnnotation(file.lines, "Component")
    /\ fqn \in service_classes <=> HasAnnotation(file.lines, "Service")
    /\ fqn \in repository_classes <=> HasAnnotation(file.lines, "Repository")
    /\ MethodSetOf(fqn) = DeclaredMethods(file.lines)

\* C13: once scan_all_classes has run, the registry has one entry per
\* fully-qualified name, and the owning file, visibility, role flags and
\* method set recorded for every name are those of the later-scanned file
\* that declares it
C13_LastWriterWins ==
    Completed("scan_all_classes") =>
        /\ \A j, k \in 1..Len(class_registry) :
                class_registry[j].key = class_registry[k].key => j = k
        /\ \A fqn \in Keys(class_registry) :
                RecordIsOf(fqn, corpus[LaterScanned(fqn)])


\* the file the registry records as the owner of fqn
OwnerOf(fqn) ==
    corpus[CHOOSE i \in 1..Len(corpus) : corpus[i].path = Get(class_registry, fqn)]

\* C14: once scan_all_classes has run, a registered name is in
\* public_classes if and only if the primary type declaration of the file
\* recorded as its owner carries the public modifier
C14_VisibilityOfOwner ==
    Completed("scan_all_classes") =>
        \A fqn \in Keys(class_registry) :
            fqn \in public_classes <=> DeclaresPublic(OwnerOf(fqn))


\* C15: scan_all_classes, taken first, goes to validate_imports without
\* touching the finding lists, and every later phase leaves class_registry,
\* public_classes, component_classes, service_classes, repository_classes,
\* feign_clients and class_methods as the scan left them and never returns
\* to the scan
C15_TableReadOnlyAfterScan ==
    [][/\ pc = "scan_all_classes" =>
            (pc' = "validate_imports" /\ UNCHANGED findingVars)
       /\ pc # "scan_all_classes" =>
            (pc' # "scan_all_classes" /\ UNCHANGED tableVars)]_vars

\* the method-call phase has looked up the methods of a registered class for
\* which the scan recorded no method
C15_Witness ==
    /\ Completed("validate_method_calls")
    /\ \E k \in 1..Len(broken_method_calls) : \E p \in 1..Len(ServicePatterns) :
        /\ SubSeq(broken_method_calls[k].target, 1, Len(ServicePatterns[p][2]))
                = ServicePatterns[p][2]
        /\ ServicePatterns[p][2] \in Keys(class_registry)
        /\ ServicePatterns[p][2] \notin Keys(class_methods)


SummaryKeys ==
    {"total_issues", "critical", "errors", "warnings", "circular_dependencies",
     "services_affected", "classes_scanned"}

FailsIn(i, phase) == ~Opened(i, phase)

\* no other file of the corpus declares the class that file i declares
SoleDeclaration(i) ==
    \A j \in 1..Len(corpus) :
        DeclaredFqn(corpus[j].lines) = DeclaredFqn(corpus[i].lines) => j = i

\* nothing of file i was recorded by the scan
NothingScanned(i) ==
    LET fqn == DeclaredFqn(corpus[i].lines)
    IN  /\ \A k \in 1..Len(class_registry) : class_registry[k].val # corpus[i].path
        /\ \A k \in 1..Len(feign_clients) : feign_clients[k].val.file # corpus[i].path
        /\ SoleDeclaration(i) =>
                /\ fqn \notin Keys(class_registry) \cup Keys(class_methods)
                /\ fqn \notin Keys(feign_clients)
                /\ fqn \notin public_classes \cup component_classes
                /\ fqn \notin service_classes \cup repository_classes

\* a file that cannot be opened in a phase has left nothing of that phase in
\* the state
FailingFileIsolated ==
    \A i \in 1..Len(corpus) :
        /\ FailsIn(i, "scan_all_classes") => NothingScanned(i)
        /\ FailsIn(i, "validate_imports")
                => FindingsOfFile(broken_imports, corpus[i].path) = {}
        /\ FailsIn(i, "validate_method_calls")
                => FindingsOfFile(broken_method_calls, corpus[i].path) = {}
        /\ FailsIn(i, "validate_spring_beans")
                => FindingsOfFile(missing_beans, corpus[i].path) = {}
        /\ (FailsIn(i, "detect_circular_dependencies") /\ SoleDeclaration(i))
                => \A k \in 1..Len(circular_dependencies) :
                       /\ circular_dependencies[k][1] # DeclaredFqn(corpus[i].lines)
                       /\ circular_dependencies[k][2] # DeclaredFqn(corpus[i].lines)

\* a file that can be opened is scanned, and its imports are validated,
\* whatever happened to the files before it
OtherFilesProcessed ==
    \A j \in 1..Len(corpus) :
        /\ (Completed("scan_all_classes") /\ ~FailsIn(j, "scan_all_classes")
                /\ DeclaredFqn(corpus[j].lines) # NoName)
            => DeclaredFqn(corpus[j].lines) \in Keys(class_registry)
        /\ (Completed("validate_imports") /\ ~FailsIn(j, "validate_imports"))
            => \A n \in 1..Len(corpus[j].lines) :
                   LET name == corpus[j].lines[n].name
                   IN  (LineImports(j, n, name) /\ corpus[j].lines[n].tail = TailNone
                            /\ IsInternal(name) /\ name \notin Keys(class_registry))
                       => FindingsAt(broken_imports, corpus[j].path, n) # {}

\* C17: every step of a phase goes to the next phase of run_validation,
\* whichever files cannot be opened; a file that cannot be opened in a phase
\* leaves no registry entry, index membership or finding of that phase, and
\* the files that can be opened are processed
C17_PerFileFailureIsolation ==
    [][/\ pc # "write_report" => pc' = PhaseOrder[PhaseIndex(pc) + 1]
       /\ FailingFileIsolated'
       /\ OtherFilesProcessed']_vars

\* the run has reported on a corpus where one file could not be opened by
\* the scan and by the import phase, while findings of a later phase come
\* from it and the other file was processed
C17_Witness ==
    /\ Completed("generate_report")
    /\ \E i, j \in 1..Len(corpus) :
        /\ FailsIn(i, "scan_all_classes") /\ FailsIn(i, "validate_imports")
        /\ ~FailsIn(i, "validate_spring_beans")
        /\ FindingsOfFile(missing_beans, corpus[i].path) # {}
        /\ corpus[j].unreadable_in = {}
        /\ FindingsOfFile(broken_imports, corpus[j].path) # {}
        /\ DeclaredFqn(corpus[j].lines) \in Keys(class_registry)


\* C18: when services_path does not exist, the run fails before any phase
\* begins: it is either about to start or has failed, and no phase has run
C18_FatalBeforeAnyPhase ==
    ~root_exists => pc \in {"scan_all_classes", "failed"}


\* directory names that mark test sources and build output
TestMarkers == {"test", "tests"}
BuildMarkers == {"target", "build"}

\* the path of the file has a test or build-output directory
UnderMarker(file) ==
    \E k \in 1..(Len(file.path) - 1) : file.path[k] \in TestMarkers \cup BuildMarkers

\* C19: a file under a test or build-output directory is never analysed: it
\* owns no registry entry and no finding of any phase has it as its source
C19_WalkerFiltersTestAndBuild ==
    \A i \in 1..Len(corpus) :
        UnderMarker(corpus[i]) =>
            /\ \A k \in 1..Len(class_registry) : class_registry[k].val # corpus[i].path
            /\ \A k \in 1..Len(feign_clients) : feign_clients[k].val.file # corpus[i].path
            /\ FindingsOfFile(broken_imports, corpus[i].path) = {}
            /\ FindingsOfFile(broken_method_calls, corpus[i].path) = {}
            /\ FindingsOfFile(missing_beans, corpus[i].path) = {}
            /\ FindingsOfFile(broken_feign_clients, corpus[i].path) = {}


\* the detail list shows at most cap findings, which are the first findings
\* of the full collection, in its order
ShowsPrefix(shown, full, cap) ==
    /\ Len(shown) <= cap
    /\ Len(shown) <= Len(full)
    /\ \A k \in 1..Len(shown) : shown[k] = Detail(full[k])

\* number of accumulated findings whose path is under the service
ServiceCount(svc) ==
    Cardinality({k \in 1..Len(AllFindings) :
                    <<svc>> = ServiceOf(AllFindings[k].source_file)})

\* the services with findings that services_affected does not show
ServicesLeftOut ==
    ({ServiceOf(AllFindings[k].source_file) : k \in 1..Len(AllFindings)} \ {NoName})
        \ {report.services_affected[k].key : k \in 1..Len(report.services_affected)}

\* C20: in the generated report critical_issues, errors, warnings and
\* circular_dependencies have at most 50, 100, 100 and 50 entries and are
\* prefixes of the full collections in accumulation order; services_affected
\* has at most 20 services with their counts, and no service left out has
\* more findings than a service shown
C20_DetailListCaps ==
    Completed("generate_report") =>
        /\ ShowsPrefix(report.critical_issues, SelectSeq(AllFindings, IsCritical), 50)
        /\ ShowsPrefix(report.errors, SelectSeq(AllFindings, IsError), 100)
        /\ ShowsPrefix(report.warnings, SelectSeq(AllFindings, IsWarning), 100)
        /\ Len(report.circular_dependencies) <= 50
        /\ Len(report.circular_dependencies) <= Len(circular_dependencies)
        /\ \A k \in 1..Len(report.circular_dependencies) :
               report.circular_dependencies[k]
                   = [class_a |-> circular_dependencies[k][1],
                      class_b |-> circular_dependencies[k][2]]
        /\ Len(report.services_affected) <= 20
        /\ \A j, k \in 1..Len(report.services_affected) :
               report.services_affected[j].key = report.services_affected[k].key
                   => j = k
        /\ \A k \in 1..Len(report.services_affected) :
               report.services_affected[k].val
                   = ServiceCount(report.services_affected[k].key[1])
        /\ \A svc \in ServicesLeftOut :
               LET count == ServiceCount(svc[1])
               IN  \A k \in 1..Len(report.services_affected) :
                       count <= report.services_affected[k].val

\* a report in which every list was cut and the service with most findings
\* was the last to be counted
C20_Witness ==
    /\ pc = "done"
    /\ Len(report.critical_issues) = 50 /\ report.summary.critical > 50
    /\ Len(report.errors) = 100 /\ report.summary.errors > 100
    /\ Len(report.warnings) = 100 /\ report.summary.warnings > 100
    /\ Len(report.circular_dependencies) = 50
    /\ report.summary.circular_dependencies > 50
    /\ Len(report.services_affected) = 20 /\ report.summary.services_affected > 20
    /\ report.services_affected[1].val > report.services_affected[20].val


\* ---------------------------------------------------------------------------
\* C21
IsPrefix(s, t) == Len(s) <= Len(t) /\ SubSeq(t, 1, Len(s)) = s

\* the step of a resolver phase keeps every entry of its own list in place
\* and leaves the listed other lists as they are
OnlyAppends(phase, own, ownAfter, others) ==
    pc = phase => IsPrefix(own, ownAfter) /\ others

SegmentOf(k) == ExtractService(AllFindings[k].source_file)

FindingsUnder(s) == Cardinality({k \in 1..Len(AllFindings) : SegmentOf(k) = s})

SegmentsWithFindings == {SegmentOf(k) : k \in 1..Len(AllFindings)} \ {"unknown"}

\* C22: in the generated report the count of every service shown is the
\* number of findings whose source path has that service as the first path
\* segment following the services-root marker, every such segment is shown
\* while fewer than the cap exist, and summary.services_affected is the
\* number of distinct such segments
C22_PerServiceGrouping ==
    Completed("generate_report") =>
        /\ \A k \in 1..Len(report.services_affected) :
               report.services_affected[k].val
                   = FindingsUnder(report.services_affected[k].key[1])
        /\ Cardinality(SegmentsWithFindings) <= TopServices =>
               \A s \in SegmentsWithFindings :
                   \E k \in 1..Len(report.services_affected) :
                       report.services_affected[k].key = <<s>>
        /\ report.summary.services_affected = Cardinality(SegmentsWithFindings)


\* ---------------------------------------------------------------------------
\* C23
Keywords == {"class", "if", "for", "while", "switch"}

\* line j of file i is matched by the method-declaration pattern, in a file
\* that scan_all_classes read and that declares a class
MethodMatchAt(i, j) ==
    /\ Opened(i, "scan_all_classes")
    /\ DeclaredFqn(corpus[i].lines) # NoName
    /\ corpus[i].lines[j].kind = "method"

\* C23: after scan_all_classes no class's method set holds one of the names
\* class, if, for, while, switch, and every other name matched by the
\* method-declaration pattern in a file that was read is in the method set of
\* the class the file declares
C23_MethodDenylist ==
    Completed("scan_all_classes") =>
        /\ \A k \in 1..Len(class_methods) : class_methods[k].val \cap Keywords = {}
        /\ \A i \in 1..Len(corpus) : \A j \in 1..Len(corpus[i].lines) :
               MethodMatchAt(i, j) /\ corpus[i].lines[j].name[1] \notin Keywords =>
                   corpus[i].lines[j].name[1]
                       \in MethodSetOf(DeclaredFqn(corpus[i].lines))

\* a file with a match named `if` and a match named otherwise was scanned
C23_Witness ==
    /\ Completed("scan_all_classes")
    /\ \E i \in 1..Len(corpus) : \E j, k \in 1..Len(corpus[i].lines) :
           /\ MethodMatchAt(i, j) /\ corpus[i].lines[j].name[1] = "if"
           /\ MethodMatchAt(i, k) /\ corpus[i].lines[k].name[1] \notin Keywords
           /\ MethodSetOf(DeclaredFqn(corpus[i].lines)) # {}


----------------------------------------------------------------------------
(* kafka_comprehensive_audit.py: KafkaArchitectureAuditor                  *)
(* A topic and a path are sequences of words; the substring tests of the   *)
(* code are computed on the words.                                         *)

\* str.lower() of a word
Lower(w) ==
    IF w = "DLQ" THEN "dlq" ELSE IF w = "Payment" THEN "payment" ELSE w

\* kafkaTemplate.send("topic", ...)
KSend(topic) ==
    [kind |-> "send", form |-> "string", topics |-> <<topic>>, name |-> ""]

\* kafkaTemplate.send(CONST, ...)
KSendConst(const) ==
    [kind |-> "send", form |-> "constant", topics |-> <<>>, name |-> const]

\* CONST = "topic";
KConst(const, topic) ==
    [kind |-> "const", form |-> "", topics |-> <<topic>>, name |-> const]

\* @KafkaListener(topics = "t"), (topics = {"t1", "t2"}), (topics = "${p}")
\* or (topics = "${p:t}"): form is single, braces or property
KListener(form, ts) ==
    [kind |-> "listener", form |-> form, topics |-> ts, name |-> ""]

\* public void name(
KMethod(name) == [kind |-> "method", form |-> "", topics |-> <<>>, name |-> name]

\* @Transactional
KTransactional ==
    [kind |-> "transactional", form |-> "", topics |-> <<>>, name |-> ""]

\* a line with one of the words idempotency, duplicate, already processed, eventid
KIdempotency ==
    [kind |-> "idempotency", form |-> "", topics |-> <<>>, name |-> ""]

\* the text "${p}" or "${p:t}" taken as a topic: the marker, then the default
PropertyText(default) == <<"${">> \o default

\* 'test' in str(java_file).lower()
TestInPath(path) ==
    \E i \in 1..Len(path) : Lower(path[i]) \in {"test", "contest-service"}

\* _extract_service_name
KafkaServiceName(path) ==
    LET hit(i) == path[i] = "services"
    IN  IF \E i \in 1..(Len(path) - 1) : hit(i)
        THEN path[1 + CHOOSE i \in 1..(Len(path) - 1) :
                        hit(i) /\ \A j \in 1..(i - 1) : ~hit(j)]
        ELSE "unknown"

\* java_file.relative_to(self.base_path)
RelativeToBase(path) == SubSeq(path, Len(ServicesPath) + 1, Len(path))

Least(S) == CHOOSE x \in S : \A y \in S : x <= y

\* _extract_method_context: lines[max(0, line_num - 10) : line_num], first match
ExtractMethodContext(lines, line_num) ==
    LET found == {i \in 1..Len(lines) :
                    /\ i >= line_num - 9 /\ i <= line_num
                    /\ lines[i].kind = "method"}
    IN  IF found = {} THEN "unknown" ELSE lines[Least(found)].name

\* _is_transactional: lines[max(0, line_num - 5) : line_num]
IsTransactional(lines, line_num) ==
    \E i \in 1..Len(lines) :
        i >= line_num - 4 /\ i <= line_num /\ lines[i].kind = "transactional"

\* _has_idempotency_check: lines[line_num : line_num + 20]
HasIdempotencyCheck(lines, line_num) ==
    \E i \in 1..Len(lines) :
        i >= line_num + 1 /\ i <= line_num + 20 /\ lines[i].kind = "idempotency"

NoTopic == <<>>

\* _extract_topic_from_send: the string, or the constant's definition in
\* all_lines[max(0, line_num - 100) : line_num + 10]; NoTopic for None
ExtractTopicFromSend(lines, line_num) ==
    LET line == lines[line_num]
        defs == {i \in 1..Len(lines) :
                    /\ i >= line_num - 99 /\ i <= line_num + 10
                    /\ lines[i].kind = "const" /\ lines[i].name = line.name}
    IN  IF line.form = "string" THEN line.topics[1]
        ELSE IF defs # {} THEN lines[Least(defs)].topics[1]
        ELSE NoTopic

\* _extract_topics_from_listener
ExtractTopicsFromListener(line) ==
    IF line.form = "single" THEN <<line.topics[1]>>
    ELSE IF line.form = "braces" THEN line.topics
    ELSE IF line.topics = <<>> THEN <<PropertyText(<<>>)>>
    ELSE <<PropertyText(line.topics[1]), line.topics[1]>>

\* d[k].append(v) on a defaultdict(list)
AppendAt(d, k, v) == Put(d, k, (IF HasKey(d, k) THEN Get(d, k) ELSE <<>>) \o <<v>>)

Indices(s) == [i \in 1..Len(s) |-> i]

\* body of the loop of find_all_producers for one file
ProducersOfFile(acc, file) ==
    IF TestInPath(file.path) THEN acc
    ELSE FoldLeft(
            LAMBDA a, i :
                IF file.lines[i].kind = "send"
                      /\ ExtractTopicFromSend(file.lines, i) # NoTopic
                THEN AppendAt(a, ExtractTopicFromSend(file.lines, i),
                         [service |-> KafkaServiceName(file.path),
                          file |-> RelativeToBase(file.path),
                          line |-> i,
                          method |-> ExtractMethodContext(file.lines, i)])
                ELSE a,
            acc, Indices(file.lines))

\* '.dlq' in topic.lower() or 'dead-letter' in topic.lower()
IsDlqTopic(topic) ==
    \/ \E i \in 2..Len(topic) : Lower(topic[i]) = "dlq" /\ topic[i - 1] # "${"
    \/ \E i \in 1..Len(topic) : Lower(topic[i]) = "dead-letter"

ConsumerTables(c, d, t, m) ==
    [consumers |-> c, dlq_consumers |-> d, transactional_consumers |-> t,
     idempotent_consumers |-> m]

\* body of `for topic in topics` of find_all_consumers
RecordConsumer(acc, info, topic) ==
    ConsumerTables(
        IF IsDlqTopic(topic) THEN acc.consumers
        ELSE AppendAt(acc.consumers, topic, info),
        IF IsDlqTopic(topic) THEN AppendAt(acc.dlq_consumers, topic, info)
        ELSE acc.dlq_consumers,
        IF info.transactional
        THEN acc.transactional_consumers \cup {<<info.service, info.method>>}
        ELSE acc.transactional_consumers,
        IF info.idempotent
        THEN acc.idempotent_consumers \cup {<<info.service, info.method>>}
        ELSE acc.idempotent_consumers)

\* consumer_info of the @KafkaListener on line i of the file
ConsumerInfo(file, i) ==
    [service |-> KafkaServiceName(file.path),
     file |-> RelativeToBase(file.path),
     line |-> i,
     method |-> ExtractMethodContext(file.lines, i),
     transactional |-> IsTransactional(file.lines, i),
     idempotent |-> HasIdempotencyCheck(file.lines, i)]

\* body of the loop of find_all_consumers for one file
ConsumersOfFile(acc, file) ==
    IF TestInPath(file.path) THEN acc
    ELSE FoldLeft(
            LAMBDA a, i :
                IF file.lines[i].kind = "listener"
                THEN FoldLeft(LAMBDA b, topic :
                                  RecordConsumer(b, ConsumerInfo(file, i), topic),
                              a, ExtractTopicsFromListener(file.lines[i]))
                ELSE a,
            acc, Indices(file.lines))

\* find_all_topics: the strings of send calls, and the listener topics found
\* by r'@KafkaListener.*?topics\s*=\s*[{"]([^}"]+)[}"]' that do not start
\* with '${'; a brace list that starts with a quote gives no match
TopicsOfFile(acc, file) ==
    IF TestInPath(file.path) THEN acc
    ELSE acc \cup {file.lines[i].topics[1] : i \in {j \in 1..Len(file.lines) :
                      /\ file.lines[j].kind \in {"send", "listener"}
                      /\ file.lines[j].form \in {"string", "single"}}}

FindTopics(files) == FoldLeft(TopicsOfFile, {}, files)

\* critical_keywords of _assess_business_impact, in dict order
ImpactKeywords ==
    << <<"payment", "CRITICAL">>, <<"transaction", "CRITICAL">>,
       <<"wallet", "CRITICAL">>, <<"fraud", "CRITICAL">>,
       <<"compliance", "CRITICAL">>, <<"kyc", "HIGH">>, <<"aml", "HIGH">>,
       <<"transfer", "HIGH">>, <<"withdrawal", "HIGH">>, <<"deposit", "HIGH">>,
       <<"refund", "HIGH">> >>

\* keyword in topic.lower()
TopicMentions(topic, keyword) == \E i \in 1..Len(topic) : Lower(topic[i]) = keyword

\* _assess_business_impact
AssessBusinessImpact(topic) ==
    LET hits == {k \in 1..Len(ImpactKeywords) : TopicMentions(topic, ImpactKeywords[k][1])}
    IN  IF hits = {} THEN "MEDIUM" ELSE ImpactKeywords[Least(hits)][2]

\* _assess_data_loss_risk
AssessDataLossRisk(topic) ==
    IF \E w \in {"payment", "transaction", "wallet", "transfer"} : TopicMentions(topic, w)
    THEN "YES - Financial data may be lost"
    ELSE "MEDIUM - Non-financial data may be lost"

\* _impact_priority
ImpactPriority(impact) ==
    IF impact = "CRITICAL" THEN 3 ELSE IF impact = "HIGH" THEN 2
    ELSE IF impact = "MEDIUM" THEN 1 ELSE 0

\* '${' in c_topic or '*' in c_topic, for some key of consumers
PossiblyConsumed(cons) ==
    \E k \in 1..Len(cons) : \E i \in 1..Len(cons[k].key) :
        cons[k].key[i] \in {"${", "*"}

\* orphaned.sort(key=priority, reverse=True): stable, ties keep their order
SortByImpactDesc(o) ==
    LET pr(i) == ImpactPriority(o[i].business_impact)
        before(j, i) == pr(j) > pr(i) \/ (pr(j) = pr(i) /\ j < i)
        rank(i) == 1 + Cardinality({j \in 1..Len(o) : before(j, i)})
    IN  [r \in 1..Len(o) |-> o[CHOOSE i \in 1..Len(o) : rank(i) = r]]

\* analyze_orphaned_events
AnalyzeOrphanedEvents(prod, cons) ==
    SortByImpactDesc(
        FoldLeft(
            LAMBDA orphaned, entry :
                IF ~HasKey(cons, entry.key)
                THEN Append(orphaned,
                        [topic |-> entry.key,
                         producers |-> entry.val,
                         producer_count |-> Len(entry.val),
                         business_impact |-> AssessBusinessImpact(entry.key),
                         data_loss_risk |-> AssessDataLossRisk(entry.key),
                         possibly_consumed_via_pattern |-> PossiblyConsumed(cons)])
                ELSE orphaned,
            <<>>, prod))

TopOrphaned == 50

\* generate_report: the summary and the orphaned events; dlq_analysis and
\* transaction_idempotency_analysis read the same tables
KafkaReport(tops, prod, cons, dlq, trans, idem) ==
    [summary |->
        [total_topics_discovered |-> Cardinality(tops),
         topics_with_producers |-> Len(prod),
         topics_with_consumers |-> Len(cons),
         topics_with_both_producer_and_consumer |-> Cardinality(Keys(prod) \cap Keys(cons)),
         orphaned_topics |-> Len(AnalyzeOrphanedEvents(prod, cons)),
         dlq_topics |-> Len(dlq),
         transactional_consumers |-> Cardinality(trans),
         idempotent_consumers |-> Cardinality(idem)],
     orphaned_events |-> Take(AnalyzeOrphanedEvents(prod, cons), TopOrphaned)]

FindAllTopics ==
    /\ kafka_pc = "find_all_topics"
    /\ topics' = topics \cup FindTopics(kafka_files)
    /\ kafka_pc' = "find_all_producers"
    /\ UNCHANGED <<kafka_files, producers, consumers, dlq_consumers,
                   transactional_consumers, idempotent_consumers, kafka_report>>
    /\ UNCHANGED <<validatorVars, migrationVars, rollbackVars>>

FindAllProducers ==
    /\ kafka_pc = "find_all_producers"
    /\ producers' = FoldLeft(ProducersOfFile, producers, kafka_files)
    /\ kafka_pc' = "find_all_consumers"
    /\ UNCHANGED <<kafka_files, topics, consumers, dlq_consumers,
                   transactional_consumers, idempotent_consumers, kafka_report>>
    /\ UNCHANGED <<validatorVars, migrationVars, rollbackVars>>

FindAllConsumers ==
    /\ kafka_pc = "find_all_consumers"
    /\ \E t \in {FoldLeft(ConsumersOfFile,
                          ConsumerTables(consumers, dlq_consumers,
                                         transactional_consumers,
                                         idempotent_consumers),
                          kafka_files)} :
           /\ consumers' = t.consumers
           /\ dlq_consumers' = t.dlq_consumers
           /\ transactional_consumers' = t.transactional_consumers
           /\ idempotent_consumers' = t.idempotent_consumers
    /\ kafka_pc' = "generate_report"
    /\ UNCHANGED <<kafka_files, topics, producers, kafka_report>>
    /\ UNCHANGED <<validatorVars, migrationVars, rollbackVars>>

KafkaGenerateReport ==
    /\ kafka_pc = "generate_report"
    /\ kafka_report' = KafkaReport(topics, producers, consumers, dlq_consumers,
                                   transactional_consumers, idempotent_consumers)
    /\ kafka_pc' = "done"
    /\ UNCHANGED <<kafka_files, topics, producers, consumers, dlq_consumers,
                   transactional_consumers, idempotent_consumers>>
    /\ UNCHANGED <<validatorVars, migrationVars, rollbackVars>>


\* -- the trees the audit is run on --
MaxKafkaFiles == 2

TPay == <<"payment", "events">>
TPayDlq == <<"Payment", "events", "DLQ">>
TAudit == <<"audit", "log">>
TDead == <<"dead-letter", "refund">>

KafkaTopics == {TPay, TPayDlq, TAudit, TDead}

MainPlace == <<"payment-service", "src", "main">>
TestPlace == <<"payment-service", "src", "test">>
ContestPlace == <<"contest-service", "src", "main">>

\* a file to be placed: the directory under base_path and the text
KafkaTemplate(place, lines) == [place |-> place, lines |-> lines]

KafkaTemplates ==
    {KafkaTemplate(MainPlace, <<KMethod("publish"), KSend(t)>>) : t \in KafkaTopics}
    \cup {KafkaTemplate(MainPlace, <<KListener("single", <<t>>), KMethod("onEvent")>>) :
            t \in KafkaTopics}
    \cup {KafkaTemplate(MainPlace, <<KConst("TOPIC", TPay), KSendConst("TOPIC")>>),
          KafkaTemplate(MainPlace, <<KSendConst("TOPIC")>>),
          KafkaTemplate(MainPlace,
              <<KMethod("handle"), KTransactional,
                KListener("braces", <<TPay, TPayDlq>>), KIdempotency>>),
          KafkaTemplate(MainPlace, <<KListener("property", <<>>)>>),
          KafkaTemplate(MainPlace, <<KListener("property", <<TAudit>>)>>),
          KafkaTemplate(TestPlace, <<KListener("single", <<TAudit>>)>>),
          KafkaTemplate(ContestPlace, <<KMethod("publish"), KSend(TAudit)>>)}

\* the i-th file of the tree
KafkaFile(template, i) ==
    [path |-> ServicesPath \o template.place \o <<FileName(i)>>,
     lines |-> template.lines]

KafkaCorpora ==
    {[i \in 1..Len(ts) |-> KafkaFile(ts[i], i)] :
        ts \in SeqsUpTo(KafkaTemplates, MaxKafkaFiles)}

\* the validator has not been started
ValidatorIdle ==
    /\ root_exists = TRUE
    /\ corpus = <<>>
    /\ NewValidator

\* main() of kafka_comprehensive_audit.py
InitKafka ==
    /\ kafka_files \in KafkaCorpora
    /\ NewAuditor
    /\ ValidatorIdle
    /\ MigrationIdle

NextKafka ==
    \/ FindAllTopics
    \/ FindAllProducers
    \/ FindAllConsumers
    \/ KafkaGenerateReport

SpecKafka == InitKafka /\ [][NextKafka]_vars

\* ---------------------------------------------------------------------------
\* C24
DiscoveredTopics == Keys(producers) \cup Keys(consumers) \cup Keys(dlq_consumers)

ReportedOrphaned(topic) ==
    \E k \in 1..Len(kafka_report.orphaned_events) :
        kafka_report.orphaned_events[k].topic = topic

HasProducer(topic) == HasKey(producers, topic) /\ Get(producers, topic) # <<>>

HasConsumerOfAnyKind(topic) ==
    \/ HasKey(consumers, topic) /\ Get(consumers, topic) # <<>>
    \/ HasKey(dlq_consumers, topic) /\ Get(dlq_consumers, topic) # <<>>

\* C24: in the report of the audit a topic is among the orphaned events if
\* and only if it has at least one discovered producer and no discovered
\* consumer of any kind, the consumers recorded for dead-letter topics
\* included
C24_OrphanedTopic ==
    kafka_pc = "done" =>
        \A topic \in DiscoveredTopics :
            ReportedOrphaned(topic)
                <=> (HasProducer(topic) /\ ~HasConsumerOfAnyKind(topic))


----------------------------------------------------------------------------
(* migration-tools/springboot3: migrate-to-springboot3.py and              *)
(* rollback-migration.py.  The text of a file is a sequence of lines.      *)

\* import ns.pkg.name;
MImport(ns, pkg, name) == [kind |-> "import", ns |-> ns, pkg |-> pkg, name |-> name]

\* @Type(arg)
MType(arg) == [kind |-> "type", ns |-> "", pkg |-> "", name |-> arg]

\* @JdbcTypeCode(SqlTypes.JSON)
MJdbcTypeCode == [kind |-> "jdbc", ns |-> "", pkg |-> "", name |-> "SqlTypes.JSON"]

\* .antMatchers( , .mvcMatchers( , .requestMatchers(
MMatchers(m) == [kind |-> "matchers", ns |-> "", pkg |-> "", name |-> m]

\* a comment that quotes one of the migration patterns
MPatternText == [kind |-> "pattern_text", ns |-> "", pkg |-> "", name |-> ""]

MOther == [kind |-> "other", ns |-> "", pkg |-> "", name |-> ""]

\* javax_to_jakarta_patterns
JavaxPackages ==
    {"persistence", "validation", "servlet", "annotation", "transaction",
     "websocket", "enterprise", "inject", "ws.rs"}

\* type_annotation_patterns + type_class_patterns
JsonTypeArgs ==
    {"type = \"jsonb\"", "JsonType.class",
     "io.hypersistence.utils.hibernate.type.json.JsonType.class"}

\* security_patterns
OldMatchers == {"antMatchers", "mvcMatchers"}

IsJavaxImport(line) ==
    line.kind = "import" /\ line.ns = "javax" /\ line.pkg \in JavaxPackages

IsJsonType(line) == line.kind = "type" /\ line.name \in JsonTypeArgs

IsOldMatcher(line) == line.kind = "matchers" /\ line.name \in OldMatchers

Count(text, Test(_)) == Cardinality({i \in 1..Len(text) : Test(text[i])})

\* re.sub over the javax_to_jakarta_patterns
JavaxToJakarta(text) ==
    [i \in 1..Len(text) |->
        IF IsJavaxImport(text[i]) THEN [text[i] EXCEPT !.ns = "jakarta"] ELSE text[i]]

\* re.sub over type_annotation_patterns + type_class_patterns
TypeToJdbcTypeCode(text) ==
    [i \in 1..Len(text) |-> IF IsJsonType(text[i]) THEN MJdbcTypeCode ELSE text[i]]

\* re.sub over security_patterns
ToRequestMatchers(text) ==
    [i \in 1..Len(text) |->
        IF IsOldMatcher(text[i]) THEN MMatchers("requestMatchers") ELSE text[i]]

\* needs_hibernate_imports: the text of a pattern occurs in the content
NeedsHibernateImports(text) == \E i \in 1..Len(text) : text[i].kind = "pattern_text"

ImportJdbcTypeCode == MImport("org", "hibernate.annotations", "JdbcTypeCode")
ImportSqlTypes == MImport("org", "hibernate.type", "SqlTypes")
ImportOldType == MImport("org", "hibernate.annotations", "Type")

Has(text, line) == \E i \in 1..Len(text) : text[i] = line

Greatest(S) == CHOOSE x \in S : \A y \in S : y <= x

\* add_hibernate_imports: the missing imports go after the last import
AddHibernateImports(text) ==
    LET imports == {i \in 1..Len(text) : text[i].kind = "import"}
        new == (IF Has(text, ImportJdbcTypeCode) THEN <<>> ELSE <<ImportJdbcTypeCode>>)
               \o (IF Has(text, ImportSqlTypes) THEN <<>> ELSE <<ImportSqlTypes>>)
    IN  IF NeedsHibernateImports(text) /\ imports # {}
        THEN SubSeq(text, 1, Greatest(imports)) \o new
                 \o SubSeq(text, Greatest(imports) + 1, Len(text))
        ELSE text

\* remove_old_type_import
RemoveOldTypeImport(text) ==
    IF \E i \in 1..Len(text) : text[i].kind = "type" THEN text
    ELSE SelectSeq(text, LAMBDA line : line # ImportOldType)

\* the rewriting part of migrate_file
MigrateContent(original) ==
    LET t1 == JavaxToJakarta(original)
        t2 == TypeToJdbcTypeCode(t1)
        early == t2 # original
        t3 == IF early /\ NeedsHibernateImports(t2)
              THEN RemoveOldTypeImport(AddHibernateImports(t2)) ELSE t2
        t4 == ToRequestMatchers(t3)
    IN  [content |-> t4,
         modified |-> early \/ t4 # t3,
         javax_imports_fixed |-> Count(original, IsJavaxImport),
         type_annotations_fixed |-> Count(t1, IsJsonType),
         security_configs_fixed |-> Count(t3, IsOldMatcher)]

\* validate_migration
ValidateMigration(text) ==
    (IF \E i \in 1..Len(text) :
            /\ text[i].kind = "import" /\ text[i].ns = "javax"
            /\ text[i].pkg \in {"persistence", "validation", "servlet", "annotation"}
     THEN <<"File still contains javax imports">> ELSE <<>>)
    \o (IF \E i \in 1..Len(text) : text[i].kind = "type"
        THEN <<"File still contains @Type annotations">> ELSE <<>>)
    \o (IF \E i, j \in 1..Len(text) :
              i # j /\ text[i].kind = "import" /\ text[i] = text[j]
        THEN <<"File contains duplicate imports">> ELSE <<>>)

\* a source file: the directory under services/, the text, and whether
\* open(file, 'r'), open(file, 'w') and backup_file succeed on it
SourceFile(place, text, readable, writable, backup_ok) ==
    [place |-> place, text |-> text, readable |-> readable,
     writable |-> writable, backup_ok |-> backup_ok]

\* Path of the i-th file of the tree
MigPath(i) == ServicesPath \o mig_tree[i].place \o <<FileName(i)>>

\* "/test/" not in str(file_path) and "/target/" not in str(file_path)
Migratable(i) ==
    \A k \in 1..(Len(MigPath(i)) - 1) : MigPath(i)[k] \notin {"test", "target"}

\* backup_dir / file_path.relative_to(Path.cwd())
BackupPath(path) ==
    <<"backups", "migration">> \o SubSeq(path, Len(BasePath) + 1, Len(path))

\* hashlib.md5(f.read()).hexdigest()
Checksum(text) == <<"md5", text>>

\* the file the loop of run_migration is at
CurrentFile == java_files[mig_index]

\* find_java_files
FindJavaFiles ==
    /\ mig_pc = "find_java_files"
    /\ java_files' = SelectSeq(Indices(mig_tree), Migratable)
    /\ mig_index' = 1
    /\ mig_pc' = IF java_files' = <<>> THEN "save_manifest" ELSE "migrate_file"
    /\ UNCHANGED <<mig_tree, disk, dry_run, mig_content, mig_modified, mig_errors,
                   backup_manifest, backups, saved_manifest, migration_stats>>
    /\ UNCHANGED <<validatorVars, kafkaVars, rollbackVars>>

MigrateFileIgnoringDryRun ==
    /\ mig_pc = "migrate_file"
    /\ IF ~mig_tree[CurrentFile].readable
       THEN /\ mig_content' = <<>>
            /\ mig_modified' = FALSE
            /\ mig_errors' = <<"Error processing">>
            /\ migration_stats' =
                   [migration_stats EXCEPT !.files_processed = @ + 1]
            /\ mig_pc' = "count"
       ELSE \E r \in {MigrateContent(disk[CurrentFile])} :
            /\ mig_content' = r.content
            /\ mig_modified' = r.modified
            /\ mig_errors' = <<>>
            /\ migration_stats' =
                   [migration_stats EXCEPT
                       !.files_processed = @ + 1,
                       !.javax_imports_fixed = @ + r.javax_imports_fixed,
                       !.type_annotations_fixed = @ + r.type_annotations_fixed,
                       !.security_configs_fixed = @ + r.security_configs_fixed]
            /\ mig_pc' = IF r.modified THEN "backup_file" ELSE "count"
    /\ UNCHANGED <<mig_tree, disk, dry_run, mig_index, java_files,
                   backup_manifest, backups, saved_manifest>>
    /\ UNCHANGED <<validatorVars, kafkaVars, rollbackVars>>

\* run_migration counts the file and calls migrate_file, which reads the
\* file and applies the patterns
MigrateFile ==
    /\ mig_pc = "migrate_file"
    /\ IF ~mig_tree[CurrentFile].readable
       THEN /\ mig_content' = <<>>
            /\ mig_modified' = FALSE
            /\ mig_errors' = <<"Error processing">>
            /\ migration_stats' =
                   [migration_stats EXCEPT !.files_processed = @ + 1]
            /\ mig_pc' = "count"
       ELSE \E r \in {MigrateContent(disk[CurrentFile])} :
            /\ mig_content' = r.content
            /\ mig_modified' = r.modified
            /\ mig_errors' = <<>>
            /\ migration_stats' =
                   [migration_stats EXCEPT
                       !.files_processed = @ + 1,
                       !.javax_imports_fixed = @ + r.javax_imports_fixed,
                       !.type_annotations_fixed = @ + r.type_annotations_fixed,
                       !.security_configs_fixed = @ + r.security_configs_fixed]
            /\ mig_pc' = IF r.modified /\ ~dry_run THEN "backup_file" ELSE "count"
    /\ UNCHANGED <<mig_tree, disk, dry_run, mig_index, java_files,
                   backup_manifest, backups, saved_manifest>>
    /\ UNCHANGED <<validatorVars, kafkaVars, rollbackVars>>

BackupFileUnchecked ==
    /\ mig_pc = "backup_file"
    /\ IF mig_tree[CurrentFile].backup_ok
       THEN /\ backups' = Put(backups, BackupPath(MigPath(CurrentFile)),
                              disk[CurrentFile])
            /\ backup_manifest' =
                   Put(backup_manifest, MigPath(CurrentFile),
                       [backup_path |-> BackupPath(MigPath(CurrentFile)),
                        original_checksum |-> Checksum(disk[CurrentFile])])
       ELSE UNCHANGED <<backups, backup_manifest>>
    /\ mig_pc' = "write_file"
    /\ UNCHANGED <<mig_modified, mig_errors>>
    /\ UNCHANGED <<mig_tree, disk, dry_run, mig_index, java_files, mig_content,
                   saved_manifest, migration_stats>>
    /\ UNCHANGED <<validatorVars, kafkaVars, rollbackVars>>

\* backup_file, and the test of its result in migrate_file
BackupFile ==
    /\ mig_pc = "backup_file"
    /\ IF mig_tree[CurrentFile].backup_ok
       THEN /\ backups' = Put(backups, BackupPath(MigPath(CurrentFile)),
                              disk[CurrentFile])
            /\ backup_manifest' =
                   Put(backup_manifest, MigPath(CurrentFile),
                       [backup_path |-> BackupPath(MigPath(CurrentFile)),
                        original_checksum |-> Checksum(disk[CurrentFile])])
            /\ mig_pc' = "write_file"
            /\ UNCHANGED <<mig_modified, mig_errors>>
       ELSE /\ mig_errors' = Append(mig_errors, "Failed to backup file")
            /\ mig_modified' = FALSE
            /\ mig_pc' = "count"
            /\ UNCHANGED <<backups, backup_manifest>>
    /\ UNCHANGED <<mig_tree, disk, dry_run, mig_index, java_files, mig_content,
                   saved_manifest, migration_stats>>
    /\ UNCHANGED <<validatorVars, kafkaVars, rollbackVars>>

\* open(file_path, 'w') and f.write(content); an exception leaves
\* migrate_file through its except clause
WriteFile ==
    /\ mig_pc = "write_file"
    /\ IF mig_tree[CurrentFile].writable
       THEN /\ disk' = [disk EXCEPT ![CurrentFile] = mig_content]
            /\ UNCHANGED <<mig_modified, mig_errors>>
       ELSE /\ mig_errors' = Append(mig_errors, "Error processing")
            /\ mig_modified' = FALSE
            /\ UNCHANGED disk
    /\ mig_pc' = "count"
    /\ UNCHANGED <<mig_tree, dry_run, mig_index, java_files, mig_content,
                   backup_manifest, backups, saved_manifest, migration_stats>>
    /\ UNCHANGED <<validatorVars, kafkaVars, rollbackVars>>

\* the rest of the loop body of run_migration
CountFile ==
    /\ mig_pc = "count"
    /\ LET issues == IF mig_modified /\ ~dry_run
                     THEN ValidateMigration(disk[CurrentFile]) ELSE <<>>
       IN  migration_stats' =
               [migration_stats EXCEPT
                   !.files_modified = IF mig_modified THEN @ + 1 ELSE @,
                   !.files_failed = IF mig_errors # <<>> THEN @ + 1 ELSE @,
                   !.errors = @ \o issues \o mig_errors]
    /\ mig_index' = mig_index + 1
    /\ mig_pc' = IF mig_index = Len(java_files) THEN "save_manifest"
                 ELSE "migrate_file"
    /\ UNCHANGED <<mig_tree, disk, dry_run, java_files, mig_content, mig_modified,
                   mig_errors, backup_manifest, backups, saved_manifest>>
    /\ UNCHANGED <<validatorVars, kafkaVars, rollbackVars>>

\* save_manifest unless dry_run, then generate_report
SaveManifest ==
    /\ mig_pc = "save_manifest"
    /\ saved_manifest' =
           IF dry_run THEN saved_manifest
           ELSE [exists |-> TRUE, entries |-> backup_manifest]
    /\ mig_pc' = "done"
    /\ UNCHANGED <<mig_tree, disk, dry_run, mig_index, java_files, mig_content,
                   mig_modified, mig_errors, backup_manifest, backups,
                   migration_stats>>
    /\ UNCHANGED <<validatorVars, kafkaVars, rollbackVars>>

\* rollback-migration.py is started: the class body evaluates the return
\* annotation `Dict` of load_manifest, a name the script does not import; an
\* interpreter that evaluates annotations at definition raises NameError,
\* one that defers them goes on to main()
LoadRollbackScript ==
    /\ mig_pc = "done"
    /\ rollback_pc = "load"
    /\ rollback_pc' \in {"failed", "run_rollback"}
    /\ UNCHANGED rollback_stats
    /\ UNCHANGED <<validatorVars, kafkaVars, migrationVars>>

FileOfPath(path) == CHOOSE i \in 1..Len(mig_tree) : MigPath(i) = path

\* rollback_file and the counting of run_rollback, for one manifest entry
RollbackEntry(acc, entry) ==
    IF HasKey(backups, entry.val.backup_path)
          /\ mig_tree[FileOfPath(entry.key)].writable
    THEN [disk |-> [acc.disk EXCEPT ![FileOfPath(entry.key)] =
                        Get(backups, entry.val.backup_path)],
          stats |-> [acc.stats EXCEPT !.files_restored = @ + 1]]
    ELSE [disk |-> acc.disk,
          stats |-> [acc.stats EXCEPT
                        !.files_failed = @ + 1,
                        !.errors = Append(@, <<"Failed to restore", entry.key>>)]]

\* run_rollback on the backup directory of the migration
RunRollback ==
    /\ rollback_pc = "run_rollback"
    /\ \E r \in {FoldLeft(RollbackEntry, [disk |-> disk, stats |-> rollback_stats],
                          IF saved_manifest.exists THEN saved_manifest.entries
                          ELSE EmptyDict)} :
           /\ disk' = r.disk
           /\ rollback_stats' = r.stats
    /\ rollback_pc' = "done"
    /\ UNCHANGED <<mig_tree, dry_run, mig_pc, mig_index, java_files, mig_content,
                   mig_modified, mig_errors, backup_manifest, backups,
                   saved_manifest, migration_stats>>
    /\ UNCHANGED <<validatorVars, kafkaVars>>

\* -- the trees the migration is run on --
MaxSourceFiles == 2

MainJava == <<"ledger", "src", "main", "java">>
TestJava == <<"ledger", "src", "test", "java">>

JavaxEntity ==
    <<MImport("javax", "persistence", "Entity"), MOther>>
JavaxDuplicate ==
    <<MImport("jakarta", "persistence", "Entity"),
      MImport("javax", "persistence", "Entity"), MMatchers("antMatchers")>>
JavaxCrypto ==
    <<MImport("javax", "crypto", "Cipher"), MMatchers("requestMatchers")>>
JsonColumn ==
    <<ImportOldType, MPatternText, MType("type = \"jsonb\""), MType("JsonType.class")>>
OtherType ==
    <<ImportOldType, MType("type = \"json\""), MMatchers("mvcMatchers")>>

SourceFiles ==
    {SourceFile(MainJava, text, TRUE, TRUE, TRUE) :
        text \in {JavaxEntity, JavaxDuplicate, JavaxCrypto, JsonColumn, OtherType}}
    \cup {SourceFile(MainJava, JavaxEntity, FALSE, TRUE, TRUE),
          SourceFile(MainJava, JavaxEntity, TRUE, FALSE, TRUE),
          SourceFile(MainJava, JavaxEntity, TRUE, TRUE, FALSE),
          SourceFile(TestJava, JavaxEntity, TRUE, TRUE, TRUE)}

InitMigration ==
    /\ mig_tree \in SeqsUpTo(SourceFiles, MaxSourceFiles)
    /\ disk = [i \in 1..Len(mig_tree) |-> mig_tree[i].text]
    /\ dry_run \in BOOLEAN
    /\ NewMigrator
    /\ NewRollback
    /\ ValidatorIdle
    /\ KafkaIdle

NextMigration ==
    \/ FindJavaFiles
    \/ MigrateFile
    \/ BackupFile
    \/ WriteFile
    \/ CountFile
    \/ SaveManifest
    \/ LoadRollbackScript
    \/ RunRollback

SpecMigration == InitMigration /\ [][NextMigration]_vars


\* ---------------------------------------------------------------------------
\* C25
\* the file holds a text other than the one it had before the migration
Overwritten(i) == disk[i] # mig_tree[i].text

\* rollback-migration.py has ended
RollbackEnded == rollback_pc \in {"done", "failed"}

\* C25: once a migration that is not a dry run has been followed by a run of
\* the rollback script on its backup directory, every file holds the text it
\* had before the migration and files_restored is the number of files the
\* migration modified
C25_MigrationRoundTrip ==
    (~dry_run /\ RollbackEnded) =>
        /\ \A i \in 1..Len(mig_tree) : ~Overwritten(i)
        /\ rollback_stats.files_restored = migration_stats.files_modified

\* ---------------------------------------------------------------------------
\* C26
\* the manifest has an entry for the file and the copy it names holds the
\* text the file had before the migration
BackedUp(i) ==
    /\ HasKey(backup_manifest, MigPath(i))
    /\ HasKey(backups, Get(backup_manifest, MigPath(i)).backup_path)
    /\ Get(backups, Get(backup_manifest, MigPath(i)).backup_path) = mig_tree[i].text

\* migrate_file reads the file and the patterns change its text
WouldChange(i) ==
    /\ Migratable(i)
    /\ mig_tree[i].readable
    /\ MigrateContent(mig_tree[i].text).content # mig_tree[i].text

\* migrate_file returns errors for the file in a run that is not a dry run
FailsMigration(i) ==
    /\ Migratable(i)
    /\ \/ ~mig_tree[i].readable
       \/ WouldChange(i) /\ ~(mig_tree[i].backup_ok /\ mig_tree[i].writable)

MigrationEnded == mig_pc = "done" /\ rollback_pc = "load"

\* C26: at every point of a migration every overwritten file has a manifest
\* entry whose backup copy holds its original text; a file whose backup
\* fails keeps its text, and at the end of the run files_modified counts the
\* overwritten files only while files_failed counts the files with an error,
\* each backup failure with its error message recorded
C26_BackupBeforeWrite ==
    /\ \A i \in 1..Len(mig_tree) : Overwritten(i) => BackedUp(i)
    /\ \A i \in 1..Len(mig_tree) :
           WouldChange(i) /\ ~mig_tree[i].backup_ok => ~Overwritten(i)
    /\ (MigrationEnded /\ ~dry_run) =>
           /\ migration_stats.files_modified
                  = Cardinality({i \in 1..Len(mig_tree) : Overwritten(i)})
           /\ migration_stats.files_failed
                  = Cardinality({i \in 1..Len(mig_tree) : FailsMigration(i)})
           /\ Cardinality({k \in 1..Len(migration_stats.errors) :
                              migration_stats.errors[k] = "Failed to backup file"})
                  = Cardinality({i \in 1..Len(mig_tree) :
                                    WouldChange(i) /\ ~mig_tree[i].backup_ok})

\* a run that overwrote one file and failed to back up another
C26_Witness ==
    /\ MigrationEnded /\ ~dry_run
    /\ \E i \in 1..Len(mig_tree) : Overwritten(i)
    /\ \E i \in 1..Len(mig_tree) : WouldChange(i) /\ ~mig_tree[i].backup_ok
    /\ migration_stats.files_failed > 0

\* ---------------------------------------------------------------------------
\* C27
\* C27: in a dry run no source file is written, no backup copy is made and
\* no manifest is saved, and when the run has ended files_processed is the
\* number of files found and files_modified the number of files whose text
\* the patterns change
C27_DryRunNoFileEffects ==
    dry_run =>
        /\ \A i \in 1..Len(mig_tree) : ~Overwritten(i)
        /\ backups = EmptyDict
        /\ ~saved_manifest.exists
        /\ mig_pc = "done" =>
               /\ migration_stats.files_processed
                      = Cardinality({i \in 1..Len(mig_tree) : Migratable(i)})
               /\ migration_stats.files_modified
                      = Cardinality({i \in 1..Len(mig_tree) : WouldChange(i)})

\* a dry run has ended and counted a file as modified
C27_Witness ==
    /\ dry_run
    /\ mig_pc = "done"
    /\ migration_stats.files_modified > 0
    /\ migration_stats.files_processed > migration_stats.files_modified


\* ---------------------------------------------------------------------------
\* C28
CategoryTotal ==
    report.by_category.broken_imports + report.by_category.broken_method_calls
        + report.by_category.missing_beans + report.by_category.broken_feign_clients

\* C28: in every generated report the three tier counts add up to
\* summary.total_issues, which is also the sum of the four by_category
\* counts and the number of findings in the four finding lists; the circular
\* dependencies are counted apart and are not part of total_issues
C28_ReportCountsPartition ==
    Completed("generate_report") =>
        /\ report.summary.critical + report.summary.errors + report.summary.warnings
               = report.summary.total_issues
        /\ report.summary.total_issues = CategoryTotal
        /\ report.summary.total_issues
               = Len(broken_imports) + Len(broken_method_calls)
                     + Len(missing_beans) + Len(broken_feign_clients)
        /\ report.summary.circular_dependencies = Len(circular_dependencies)

\* a report with critical findings, findings of another tier, and cycles
C28_Witness ==
    /\ Completed("generate_report")
    /\ report.summary.critical > 0
    /\ report.summary.errors + report.summary.warnings > 0
    /\ report.summary.circular_dependencies > 0


\* ---------------------------------------------------------------------------
\* C29
\* the fully-qualified names declared by the files that scan_all_classes read
ScannedNames ==
    {DeclaredFqn(corpus[i].lines) :
        i \in {j \in 1..Len(corpus) : Opened(j, "scan_all_classes")}} \ {NoName}

RegisteredNames == {class_registry[k].key : k \in 1..Len(class_registry)}

\* C29: at every point the four class sets, the keys of feign_clients and
\* the keys of class_methods are subsets of the keys of class_registry, and
\* in the generated report summary.classes_scanned is the number of distinct
\* fully-qualified names that were registered
C29_IndexContainment ==
    /\ public_classes \subseteq RegisteredNames
    /\ component_classes \subseteq RegisteredNames
    /\ service_classes \subseteq RegisteredNames
    /\ repository_classes \subseteq RegisteredNames
    /\ {feign_clients[k].key : k \in 1..Len(feign_clients)} \subseteq RegisteredNames
    /\ {class_methods[k].key : k \in 1..Len(class_methods)} \subseteq RegisteredNames
    /\ Completed("scan_all_classes") => RegisteredNames = ScannedNames
    /\ Completed("generate_report") =>
           report.summary.classes_scanned = Cardinality(ScannedNames)

\* two files declared the same class, and the indexes are not empty
C29_Witness ==
    /\ Completed("generate_report")
    /\ Cardinality(ScannedNames) < Len(corpus)
    /\ \A i \in 1..Len(corpus) : DeclaredFqn(corpus[i].lines) # NoName
    /\ public_classes # {}
    /\ service_classes # {}
    /\ class_methods # <<>>


\* ---------------------------------------------------------------------------
\* C30
\* file i, read by detect_circular_dependencies, declares class a and has an
\* import statement of a
SelfImport(i, a) ==
    /\ Opened(i, "detect_circular_dependencies")
    /\ a # NoName
    /\ DeclaredFqn(corpus[i].lines) = a
    /\ \E n \in 1..Len(corpus[i].lines) : LineImports(i, n, a)

SelfEntries(a) ==
    {k \in 1..Len(circular_dependencies) : circular_dependencies[k] = <<a, a>>}

====
